---- MODULE Spec2Model ----
(***************************************************************************)
(* TIRE (Turn-by-turn Indoor Routing Engine): Pathfinder (A* search), EKF, *)
(* Announcer and the main control loop.                                    *)
(*                                                                         *)
(* Real quantities are fixed-point integers: lengths in millimetres,       *)
(* angles in milliradians, times in milliseconds, covariances in           *)
(* thousandths.  1.5 m is 1500, 0.35 rad is 350, 3.0 s is 3000.            *)
(***************************************************************************)
EXTENDS Integers, Sequences, FiniteSets, TLC

VARIABLES
    nodes,                  \* NavigationGraph::nodes  (id -> GraphNode)
    \* ---- Pathfinder::find_path locals
    pf_pc,                  \* position inside find_path
    start_node_id,
    target_node_id,
    open_set,               \* the priority queue, a set of NodeScore
    came_from,
    g_score,
    path,                   \* value returned by find_path
    pf_iterations,          \* iterations of the main loop of find_path so far
    \* ---- EKF
    x,                      \* state vector <<px, py, theta>>
    P,                      \* 3x3 covariance
    ekf_ops,                \* number of EKF calls made (bounds the run)
    ekf_call,               \* the last EKF call and its argument
    \* ---- Announcer
    next_node_index,
    destination_reached,
    last_announcement_time,
    \* ---- main()
    pc,                     \* position inside the control loop
    is_navigating,
    current_path,
    last_time,
    now,                    \* std::chrono::steady_clock
    dt,
    key_press,
    ble_timer,
    pdr_update,
    \* ---- what the hardware port and the components were asked to do
    calls,                  \* calls made during the current tick, in order
    audio,                  \* cues played during the current tick, in order
    next_idx,               \* value returned by the last announcer.update
    scan_times,             \* loop instants of the last two hw.scan_BLE() calls
    arrivals,               \* destination_reached cues since the last reset
    turn_cue_time,          \* instant of the last turn cue, -1 if none
    waypoint_since_cue,     \* a waypoint was reached after that turn cue
    ticks,                  \* completed ticks (bounds the run)
    \* ---- PDR
    previous_acceleration_magnitude,
    is_peak,
    current_heading,
    accumulated_delta_heading,
    new_step_detected,
    last_step_length,
    interval_samples,       \* what each process_IMU_data call since the last
                            \* drain did: rotation, step fired, its length
    drained_samples,        \* interval_samples as the last drain found it
    pdr_returns,            \* values returned by the drains made since the
                            \* last process_IMU_data call, in order
    drains,                 \* number of drains made
    pdr_ops,                \* number of PDR calls made (bounds the run)
    last_sample_step,       \* detect_step returned true on the latest sample
    \* ---- BLEFingerpinting
    ble_fp_k,               \* BLEFingerpinting::k
    fingerprint_map,
    k_arg,                  \* the argument the constructor was given
    current_scan,           \* argument of the last find_closest_position
    ble_pos,                \* value it returned
    ble_ops,                \* number of localizer calls made (bounds the run)
    \* ---- NavigationGraph::load_from_json
    document,               \* the file the last load was given
    load_ok,                \* value the last load returned
    loads,                  \* number of loads made (bounds the run)
    \* ---- startup and shutdown of main()
    hw_ok,                  \* value hw->initialize() returned
    radio_file_ok,          \* the radio map file could be read
    exit_code,              \* value main() returned, once it has
    power_switch,           \* position of the power switch
    \* ---- more of what the hardware port was asked to do
    scans_empty,            \* for each scan of the current tick: was it empty
    periodic_scans          \* loop instants (last_time) of the periodic scans made

pfVars   == <<pf_pc, start_node_id, target_node_id, open_set, came_from,
              g_score, path, pf_iterations>>
ekfVars  == <<x, P, ekf_ops, ekf_call>>
annVars  == <<next_node_index, destination_reached, last_announcement_time>>
mainVars == <<pc, is_navigating, current_path, last_time, now, dt, key_press,
              ble_timer, pdr_update>>
obsVars  == <<calls, audio, next_idx, scan_times, arrivals, turn_cue_time,
              waypoint_since_cue, ticks, scans_empty, periodic_scans>>
pdrVars  == <<previous_acceleration_magnitude, is_peak, current_heading,
              accumulated_delta_heading, new_step_detected, last_step_length,
              interval_samples, drained_samples, pdr_returns, drains,
              pdr_ops, last_sample_step>>
bleVars  == <<ble_fp_k, fingerprint_map, k_arg, current_scan, ble_pos, ble_ops>>
loaderVars == <<document, load_ok, loads>>
startVars == <<hw_ok, radio_file_ok, exit_code, power_switch>>
vars     == <<nodes, pfVars, ekfVars, annVars, mainVars, obsVars, pdrVars,
              bleVars, loaderVars, startVars>>

----------------------------------------------------------------------------
(* Arithmetic helpers *)

SCALE == 1000

Abs(a) == IF a < 0 THEN -a ELSE a

RECURSIVE SqrtIter(_, _, _)
SqrtIter(n, lo, hi) ==
    IF lo >= hi THEN lo
    ELSE LET mid == (lo + hi + 1) \div 2
         IN  IF mid * mid <= n THEN SqrtIter(n, mid, hi)
                               ELSE SqrtIter(n, lo, mid - 1)

\* std::sqrt on fixed-point lengths: sqrt(dx*dx + dy*dy) in millimetres.
Sqrt(n) == SqrtIter(n, 0, 46340)

Hypot(dx, dy) == Sqrt(dx * dx + dy * dy)

RECURSIVE SeqSum(_)
SeqSum(s) == IF s = <<>> THEN 0 ELSE Head(s) + SeqSum(Tail(s))

----------------------------------------------------------------------------
(* NavigationGraph *)

\* Node ids in std::map (lexicographic) order.
NodeOrder == <<"RP_HALLWAY_END", "RP_HALLWAY_MIDDLE", "RP_HALLWAY_START",
               "RP_LOBBY">>
NodeIds == {NodeOrder[i] : i \in 1..Len(NodeOrder)}

Rank(id) == CHOOSE i \in 1..Len(NodeOrder) : NodeOrder[i] = id

\* The ids of a set, as a sequence in std::map iteration order.
RECURSIVE OrderedFrom(_, _)
OrderedFrom(S, i) ==
    IF i > Len(NodeOrder) THEN <<>>
    ELSE IF NodeOrder[i] \in S THEN <<NodeOrder[i]>> \o OrderedFrom(S, i + 1)
         ELSE OrderedFrom(S, i + 1)
Ordered(S) == OrderedFrom(S, 1)

get_node(g, id) == id \in DOMAIN g          \* TRUE iff the pointer is non-null

get_distance(g, id_a, id_b) ==
    IF ~get_node(g, id_a) \/ ~get_node(g, id_b) THEN -SCALE
    ELSE Hypot(g[id_a].position.x - g[id_b].position.x,
               g[id_a].position.y - g[id_b].position.y)

----------------------------------------------------------------------------
(* Graphs *)

\* Four waypoints on the corners of a 3 m x 4 m rectangle.
NodePosition(id) ==
    CASE id = "RP_HALLWAY_START"  -> [x |-> 0,    y |-> 0]
      [] id = "RP_HALLWAY_MIDDLE" -> [x |-> 3000, y |-> 0]
      [] id = "RP_LOBBY"          -> [x |-> 0,    y |-> 4000]
      [] id = "RP_HALLWAY_END"    -> [x |-> 3000, y |-> 4000]

Euclid(a, b) == Hypot(NodePosition(a).x - NodePosition(b).x,
                      NodePosition(a).y - NodePosition(b).y)

\* Extra length of an edge that is longer than the straight line.
Detour == 2500

\* Unordered pairs of distinct ids, lower rank first.
Pairs == {pr \in NodeIds \X NodeIds : Rank(pr[1]) < Rank(pr[2])}

\* How a pair of waypoints is connected in a map document:
\*   none    no edge
\*   exact   both directions, cost = straight-line distance
\*   long    both directions, cost = straight-line distance + Detour
\*   oneway  only lower id -> higher id (the loader does not symmetrize)
EdgeOptions == {"none", "exact", "long", "oneway"}

PairOf(u, v) == IF Rank(u) < Rank(v) THEN <<u, v>> ELSE <<v, u>>

HasEdge(opt, u, v) ==
    /\ u # v
    /\ \/ opt[PairOf(u, v)] \in {"exact", "long"}
       \/ opt[PairOf(u, v)] = "oneway" /\ Rank(u) < Rank(v)

EdgeCost(opt, u, v) ==
    IF opt[PairOf(u, v)] = "long" THEN Euclid(u, v) + Detour ELSE Euclid(u, v)

GraphNode(opt, id) ==
    [position   |-> NodePosition(id),
     audio_file |-> IF id = "RP_HALLWAY_MIDDLE" THEN "cue_middle" ELSE "",
     neighbors  |-> [v \in {w \in NodeIds : HasEdge(opt, id, w)}
                        |-> EdgeCost(opt, id, v)]]

GraphOf(opt, present) == [id \in present |-> GraphNode(opt, id)]

\* The node sets of the maps: all four waypoints, or a document without
\* RP_LOBBY whose other nodes may still name it as a neighbor.
Presents == {NodeIds, NodeIds \ {"RP_LOBBY"}}

\* The maps the pathfinder is exercised on.
GraphFamily ==
    {GraphOf(opt, present) : opt \in [Pairs -> EdgeOptions], present \in Presents}

\* Maps with self-loops and zero-cost edges.  Every node names itself as a
\* neighbor, at cost 0 or Detour; a pair of waypoints has no edge, an edge of
\* cost 0 in both directions, or an edge of the straight-line cost.
LoopCosts == {0, Detour}
LoopyEdgeOptions == {"none", "zero", "exact"}

LoopyNode(opt, loop_cost, id) ==
    [position   |-> NodePosition(id),
     audio_file |-> "",
     neighbors  |-> [v \in {w \in NodeIds :
                               w = id \/ opt[PairOf(id, w)] # "none"}
                        |-> IF v = id THEN loop_cost
                            ELSE IF opt[PairOf(id, v)] = "zero" THEN 0
                            ELSE Euclid(id, v)]]

LoopyFamily ==
    {[id \in NodeIds |-> LoopyNode(opt, loop_cost, id)] :
        opt \in [Pairs -> LoopyEdgeOptions], loop_cost \in LoopCosts}

----------------------------------------------------------------------------
(* NavigationGraph::load_from_json *)

\* A map file: one that cannot be opened, one that is not JSON, or a JSON
\* document with its "nodes" array.
Unreadable == [status |-> "unreadable", items |-> <<>>]
Malformed  == [status |-> "malformed", items |-> <<>>]
Parsed(items) == [status |-> "parsed", items |-> items]

\* An element of the "nodes" array.
Item(id, position, audio_file, neighbors) ==
    [id |-> id, x |-> position.x, y |-> position.y, audio |-> audio_file,
     neighbors |-> neighbors]

\* The GraphNode built from an element: position, audio file and a copy of
\* every entry of "neighbors".
NodeOfItem(item) ==
    [position   |-> [x |-> item.x, y |-> item.y],
     audio_file |-> item.audio,
     neighbors  |-> item.neighbors]

\* nodes[node.id] = node; for each element in turn: a later element with the
\* same id replaces the earlier one.
RECURSIVE StoreItems(_, _)
StoreItems(items, loaded) ==
    IF items = <<>> THEN loaded
    ELSE LET item == Head(items)
         IN  StoreItems(Tail(items),
                 [id \in DOMAIN loaded \cup {item.id} |->
                     IF id = item.id THEN NodeOfItem(item) ELSE loaded[id]])

\* NavigationGraph::NavigationGraph(): no nodes.
EmptyGraph == [id \in {} |-> 0]

\* NavigationGraph::load_from_json: the value returned and the nodes
\* afterwards.  A file that cannot be opened or parsed leaves the nodes as
\* they were; a parsed document replaces them and is never rejected.
load_from_json(file, old_nodes) ==
    IF file.status \in {"unreadable", "malformed"}
    THEN [ok |-> FALSE, nodes |-> old_nodes]
    ELSE [ok |-> TRUE, nodes |-> StoreItems(file.items, EmptyGraph)]

\* A document that loads as the graph g.
DocumentOf(g) ==
    LET ids == Ordered(DOMAIN g)
    IN  Parsed([i \in 1..Len(ids) |->
                  Item(ids[i], g[ids[i]].position, g[ids[i]].audio_file,
                       g[ids[i]].neighbors)])

----------------------------------------------------------------------------
(* Pathfinder::find_path *)

Infinity == 1000000000      \* std::numeric_limits<double>::infinity()

NodeScore(id, f) == [id |-> id, f_score |-> f]

\* std::greater<NodeScore>: e may be on top of the min-heap iff no entry has a
\* smaller f_score.  Which of several entries of equal f_score is on top is
\* left to the heap implementation.
IsTopMax(e, open) == \A o \in open : e.f_score >= o.f_score
IsTop(e, open) == \A o \in open : e.f_score <= o.f_score

\* std::map::operator[] on g_score: a missing key is inserted with 0.0.
GScoreTouch(g, id) ==
    IF id \in DOMAIN g THEN g
    ELSE [k \in DOMAIN g \cup {id} |-> IF k = id THEN 0 ELSE g[k]]

MapPut(m, k, v) == [j \in DOMAIN m \cup {k} |-> IF j = k THEN v ELSE m[j]]

\* The body of the neighbor loop for one (neighbor_id, distance_to_neighbor).
RelaxRequeue(st, gr, current_id, current_g, neighbor_id, target) ==
    LET tentative_g == current_g + gr[current_id].neighbors[neighbor_id]
        g1 == GScoreTouch(st.g, neighbor_id)
        f == tentative_g + get_distance(gr, neighbor_id, target)
    IN  IF tentative_g < g1[neighbor_id]
        THEN [open |-> st.open \cup {NodeScore(neighbor_id, f)},
              cf   |-> MapPut(st.cf, neighbor_id, current_id),
              g    |-> MapPut(g1, neighbor_id, tentative_g)]
        ELSE [open |-> st.open \cup {NodeScore(neighbor_id, f)},
              cf   |-> st.cf, g |-> g1]
Relax(st, gr, current_id, current_g, neighbor_id, target) ==
    LET tentative_g == current_g + gr[current_id].neighbors[neighbor_id]
        g1 == GScoreTouch(st.g, neighbor_id)
    IN  IF tentative_g < g1[neighbor_id]
        THEN LET f == tentative_g + get_distance(gr, neighbor_id, target)
             IN  [open |-> st.open \cup {NodeScore(neighbor_id, f)},
                  cf   |-> MapPut(st.cf, neighbor_id, current_id),
                  g    |-> MapPut(g1, neighbor_id, tentative_g)]
        ELSE [open |-> st.open, cf |-> st.cf, g |-> g1]

\* for (auto const& [neighbor_id, distance_to_neighbor] : node_ptr->neighbors)
RECURSIVE Expand(_, _, _, _, _, _)
Expand(st, gr, current_id, current_g, ids, target) ==
    IF ids = <<>> THEN st
    ELSE Expand(Relax(st, gr, current_id, current_g, Head(ids), target),
                gr, current_id, current_g, Tail(ids), target)

\* while (came_from.find(current_id) != came_from.end()) { push_back; ... }
\* The ids pushed, in push order (target first).
RECURSIVE Backtrack(_, _)
Backtrack(cf, current_id) ==
    IF current_id \in DOMAIN cf
    THEN <<current_id>> \o Backtrack(cf, cf[current_id])
    ELSE <<>>

Reverse(s) == [i \in 1..Len(s) |-> s[Len(s) + 1 - i]]

ReconstructPathNoStart(cf, start, target) == Reverse(Backtrack(cf, target))
ReconstructPath(cf, start, target) ==
    Reverse(Backtrack(cf, target) \o <<start>>)

EmptyMap == [k \in {} |-> 0]

\* 1. Validate inputs: both ids must name a node of the graph.
ValidateInputsStartOnly(g, start, target) == get_node(g, start)
ValidateInputs(g, start, target) == get_node(g, start) /\ get_node(g, target)

\* Input validation and initialisation of the search structures.
FindPathEnter ==
    /\ pf_pc = "call"
    /\ IF ~ValidateInputs(nodes, start_node_id, target_node_id)
       THEN /\ path' = <<>>
            /\ pf_pc' = "done"
            /\ UNCHANGED <<open_set, came_from, g_score>>
       ELSE /\ g_score' = [id \in DOMAIN nodes |->
                              IF id = start_node_id THEN 0 ELSE Infinity]
            /\ came_from' = EmptyMap
            /\ open_set' = {NodeScore(start_node_id,
                              get_distance(nodes, start_node_id, target_node_id))}
            /\ pf_pc' = "loop"
            /\ path' = <<>>
    /\ pf_iterations' = 0
    /\ UNCHANGED <<start_node_id, target_node_id>>

\* One iteration of "while (!open_set.empty())", or the exit of the loop.
FindPathIterate ==
    /\ pf_pc = "loop"
    /\ IF open_set = {}
       THEN /\ path' = <<>>
            /\ pf_pc' = "done"
            /\ UNCHANGED <<open_set, came_from, g_score>>
       ELSE \E current \in open_set :
              /\ IsTop(current, open_set)
              /\ IF current.id = target_node_id
                 THEN /\ path' = ReconstructPath(came_from, start_node_id,
                                                 target_node_id)
                      /\ pf_pc' = "done"
                      /\ open_set' = open_set \ {current}
                      /\ UNCHANGED <<came_from, g_score>>
                 ELSE /\ get_node(nodes, current.id)
                      /\ LET st == Expand([open |-> open_set \ {current},
                                           cf |-> came_from, g |-> g_score],
                                          nodes, current.id, g_score[current.id],
                                          Ordered(DOMAIN nodes[current.id].neighbors),
                                          target_node_id)
                         IN  /\ open_set' = st.open
                             /\ came_from' = st.cf
                             /\ g_score' = st.g
                             /\ UNCHANGED <<path, pf_pc>>
    /\ pf_iterations' = IF open_set = {} THEN pf_iterations
                                         ELSE pf_iterations + 1
    /\ UNCHANGED <<start_node_id, target_node_id>>

\* What the build may do when the loop reads the neighbors of a null
\* node_ptr: stop the process, or read an empty neighbor map and go on.
NullOutcomes == {"crash", "empty"}

\* An iteration that pops an id for which graph.get_node returns nullptr:
\* "node_ptr->neighbors" is read through the null pointer.
NullDereference ==
    /\ pf_pc = "loop"
    /\ \E current \in open_set :
         /\ IsTop(current, open_set)
         /\ current.id # target_node_id
         /\ ~get_node(nodes, current.id)
         /\ open_set' = open_set \ {current}
         /\ \E outcome \in NullOutcomes :
              pf_pc' = IF outcome = "crash" THEN "crashed" ELSE "loop"
    /\ pf_iterations' = pf_iterations + 1
    /\ UNCHANGED <<came_from, g_score, path, start_node_id, target_node_id>>

----------------------------------------------------------------------------
(* Angles *)

PI == 3142                  \* M_PI in milliradians
HALF_PI == 1571

\* atan on [0, 1]:  z*pi/4 + z*(1 - z)*(0.2447 + 0.0663*z), within 2 mrad.
AtanUnit(z) ==
    (785 * z) \div SCALE
      + (((z * (SCALE - z)) \div SCALE) * (245 + (66 * z) \div SCALE)) \div SCALE

\* std::atan2(dy, dx), result in [-PI, PI].
Atan2(dy, dx) ==
    IF dx = 0 /\ dy = 0 THEN 0
    ELSE LET ax == Abs(dx)
             ay == Abs(dy)
             a  == IF ay <= ax THEN AtanUnit((ay * SCALE) \div ax)
                               ELSE HALF_PI - AtanUnit((ax * SCALE) \div ay)
         IN  IF dx >= 0 THEN (IF dy >= 0 THEN a ELSE -a)
                        ELSE (IF dy >= 0 THEN PI - a ELSE a - PI)

\* normalize_angle: while (angle > M_PI) angle -= 2 M_PI;
\*                  while (angle < -M_PI) angle += 2 M_PI;
RECURSIVE normalize_angle(_)
normalize_angle(angle) ==
    IF angle > PI THEN normalize_angle(angle - 2 * PI)
    ELSE IF angle < -PI THEN normalize_angle(angle + 2 * PI)
    ELSE angle

\* std::sin on [-pi/2, pi/2]: x - x^3/3! + x^5/5! - x^7/7!
SinCore(a) ==
    LET a2 == (a * a) \div SCALE
        a3 == (a2 * a) \div SCALE
        a5 == (a3 * a2) \div SCALE
        a7 == (a5 * a2) \div SCALE
    IN  a - a3 \div 6 + a5 \div 120 - a7 \div 5040

\* The doubles of the filter.  The finite values are the fixed-point numbers
\* up to DOUBLE_MAX in magnitude; a result beyond it is an infinity, and
\* inf - inf, 0 * inf, 0 / 0 and inf / inf are not-a-number.
DOUBLE_MAX == 2000000
PosInf == DOUBLE_MAX + 1
NegInf == -PosInf
NaN == DOUBLE_MAX + 2

IsNaN(a) == a = NaN
IsInf(a) == a = PosInf \/ a = NegInf
Finite(a) == ~IsNaN(a) /\ ~IsInf(a)

\* The double nearest to the exact result v.
Rounded(v) ==
    IF v > DOUBLE_MAX THEN PosInf ELSE IF v < -DOUBLE_MAX THEN NegInf ELSE v

\* The infinity with the sign of a * b (a, b not zero and not NaN).
SignedInf(a, b) == IF (a < 0) = (b < 0) THEN PosInf ELSE NegInf

Neg(a) == IF IsNaN(a) THEN NaN ELSE -a

\* a + b
Add(a, b) ==
    IF IsNaN(a) \/ IsNaN(b) THEN NaN
    ELSE IF IsInf(a) THEN (IF IsInf(b) /\ b # a THEN NaN ELSE a)
    ELSE IF IsInf(b) THEN b
    ELSE Rounded(a + b)

\* a - b
Sub(a, b) == Add(a, Neg(b))

\* a * b, the product of two fixed-point numbers.
Mul(a, b) ==
    IF IsNaN(a) \/ IsNaN(b) THEN NaN
    ELSE IF a = 0 \/ b = 0 THEN (IF IsInf(a) \/ IsInf(b) THEN NaN ELSE 0)
    ELSE IF IsInf(a) \/ IsInf(b) THEN SignedInf(a, b)
    ELSE IF Abs(a) > (DOUBLE_MAX * SCALE) \div Abs(b) THEN SignedInf(a, b)
    ELSE Rounded((a * b) \div SCALE)

\* a / b
Div(a, b) ==
    IF IsNaN(a) \/ IsNaN(b) THEN NaN
    ELSE IF IsInf(a) THEN (IF IsInf(b) THEN NaN
                           ELSE IF b = 0 THEN a ELSE SignedInf(a, b))
    ELSE IF IsInf(b) THEN 0
    ELSE IF b = 0 THEN (IF a = 0 THEN NaN ELSE SignedInf(a, 1))
    ELSE Rounded((a * SCALE) \div b)

\* a > b, false when one of them is NaN.
Greater(a, b) == ~IsNaN(a) /\ ~IsNaN(b) /\ a > b

\* std::atan2(std::sin(a), std::cos(a)): the principal value of a.  At an odd
\* multiple of pi the sign of the tiny sine decides between -pi and pi.
AtanSinCos(a) ==
    IF ~Finite(a) THEN NaN
    ELSE LET r == ((a + PI) % (2 * PI)) - PI
         IN  IF r = -PI /\ a > 0 THEN PI ELSE r

Sin(a) ==
    IF ~Finite(a) THEN NaN
    ELSE LET r == AtanSinCos(a)
         IN  IF r > HALF_PI THEN SinCore(PI - r)
             ELSE IF r < -HALF_PI THEN SinCore(-PI - r)
             ELSE SinCore(r)

Cos(a) == IF ~Finite(a) THEN NaN ELSE Sin(a + HALF_PI)

----------------------------------------------------------------------------
(* EKF *)

HEADING_EPSILON == 1        \* std::abs(pdr_state.delta_heading) > 0.001

\* Q = diag(0.1, 0.1, 0.05), R = diag(2.0, 2.0)
Q == <<<<100, 0, 0>>, <<0, 100, 0>>, <<0, 0, 50>>>>
R == <<<<2000, 0>>, <<0, 2000>>>>

MatMul3(A, B) ==
    [i \in 1..3 |-> [j \in 1..3 |->
        Add(Add(Mul(A[i][1], B[1][j]), Mul(A[i][2], B[2][j])),
            Mul(A[i][3], B[3][j]))]]
Transpose3(A) == [i \in 1..3 |-> [j \in 1..3 |-> A[j][i]]]
MatAdd3(A, B) == [i \in 1..3 |-> [j \in 1..3 |-> Add(A[i][j], B[i][j])]]
MatSub3(A, B) == [i \in 1..3 |-> [j \in 1..3 |-> Sub(A[i][j], B[i][j])]]

\* The determinant Eigen::Matrix2d::inverse() divides by.
Determinant2(S) == Sub(Mul(S[1][1], S[2][2]), Mul(S[1][2], S[2][1]))

\* Eigen::Matrix2d::inverse(): adjugate over determinant, with no test of
\* the determinant.
Inverse2(S) ==
    LET det == Determinant2(S)
    IN  <<<<Div(S[2][2], det), Div(Neg(S[1][2]), det)>>,
          <<Div(Neg(S[2][1]), det), Div(S[1][1], det)>>>>

\* EKF::initialize
EkfInitialize(start_x, start_y, start_theta) ==
    [x |-> <<start_x, start_y, start_theta>>,
     P |-> <<<<SCALE, 0, 0>>, <<0, SCALE, 0>>, <<0, 0, SCALE>>>>]

\* if (!pdr_state.step_detected): the heading after a call without a step.
HeadingOnlyAlways(theta, delta_heading) == AtanSinCos(Add(theta, delta_heading))
HeadingOnly(theta, delta_heading) ==
    IF Greater(Abs(delta_heading), HEADING_EPSILON)
    THEN AtanSinCos(Add(theta, delta_heading))
    ELSE theta

\* EKF::predict
EkfPredict(xs, Ps, pdr_state) ==
    IF ~pdr_state.step_detected
    THEN [x |-> <<xs[1], xs[2], HeadingOnly(xs[3], pdr_state.delta_heading)>>,
          P |-> Ps]
    ELSE LET step_len  == pdr_state.step_length
             d_theta   == pdr_state.delta_heading
             theta     == xs[3]
             mid_theta == Add(theta, d_theta \div 2)
             F == <<<<SCALE, 0, Neg(Mul(step_len, Sin(mid_theta)))>>,
                    <<0, SCALE, Mul(step_len, Cos(mid_theta))>>,
                    <<0, 0, SCALE>>>>
         IN  [x |-> <<Add(xs[1], Mul(step_len, Cos(mid_theta))),
                      Add(xs[2], Mul(step_len, Sin(mid_theta))),
                      AtanSinCos(Add(theta, d_theta))>>,
              P |-> MatAdd3(MatMul3(MatMul3(F, Ps), Transpose3(F)), Q)]

\* The innovation covariance S = H P H^T + R of EKF::update: with
\* H = [1 0 0; 0 1 0], H P H^T is the upper-left 2x2 block of P.
InnovationCovariance(Ps) ==
    <<<<Add(Ps[1][1], R[1][1]), Add(Ps[1][2], R[1][2])>>,
      <<Add(Ps[2][1], R[2][1]), Add(Ps[2][2], R[2][2])>>>>

\* EKF::update.  H x is <<px, py>> and P H^T the first two columns of P.
EkfUpdate(xs, Ps, ble_position) ==
    LET y == <<Sub(ble_position[1], xs[1]), Sub(ble_position[2], xs[2])>>
        S == InnovationCovariance(Ps)
        Sinv == Inverse2(S)
        K == [i \in 1..3 |-> [j \in 1..2 |->
                Add(Mul(Ps[i][1], Sinv[1][j]), Mul(Ps[i][2], Sinv[2][j]))]]
        KH == [i \in 1..3 |-> [j \in 1..3 |-> IF j <= 2 THEN K[i][j] ELSE 0]]
        I == <<<<SCALE, 0, 0>>, <<0, SCALE, 0>>, <<0, 0, SCALE>>>>
    IN  [x |-> [i \in 1..3 |->
                  Add(xs[i], Add(Mul(K[i][1], y[1]), Mul(K[i][2], y[2])))],
         P |-> MatMul3(MatSub3(I, KH), Ps)]

----------------------------------------------------------------------------
(* Announcer *)

WAYPOINT_REACHED_RADIUS == 1500
ANNOUNCEMENT_COOLDOWN == 3000
TURN_THRESHOLD == 350

\* std::chrono::steady_clock::time_point(): the epoch of the clock.
ClockEpoch == 0

\* if (current_path.empty() || destination_reached) return -1;
NavigationInactiveArrivedOnly(p, reached) == reached
NavigationInactive(p, reached) == p = <<>> \/ reached

\* if (next_node_index >= current_path.size())
RanOutOfNodes(idx, p) == idx >= Len(p)

\* if (distance < WAYPOINT_REACHED_RADIUS)
WaypointReached(distance) == distance < WAYPOINT_REACHED_RADIUS

\* if (elapsed.count() < ANNOUNCEMENT_COOLDOWN)
CoolingDownNever(elapsed) == FALSE
CoolingDown(elapsed) == elapsed < ANNOUNCEMENT_COOLDOWN

\* The cue chosen from the heading error ("" is silence).
TurnCueSwapped(error) ==
    IF error > TURN_THRESHOLD THEN "turn_right"
    ELSE IF error < -TURN_THRESHOLD THEN "turn_left"
    ELSE ""
TurnCue(error) ==
    IF error > TURN_THRESHOLD THEN "turn_left"
    ELSE IF error < -TURN_THRESHOLD THEN "turn_right"
    ELSE ""

\* Result of an update: the value returned, the fields afterwards and the
\* cues handed to hw.play_audio, in order.
AnnouncerResult(ret, idx, reached, last, cues) ==
    [ret |-> ret, next_node_index |-> idx, destination_reached |-> reached,
     last_announcement_time |-> last, cues |-> cues]

\* hw.play_audio("destination_reached"); destination_reached = true; return -1;
ArriveNoLatch(idx, last) ==
    AnnouncerResult(-1, idx, FALSE, last, <<"destination_reached">>)
Arrive(idx, last) ==
    AnnouncerResult(-1, idx, TRUE, last, <<"destination_reached">>)

\* The waypoint branch: play the landmark cue or the generic beep, advance.
AdvanceWaypointSkip(target_node, idx, reached) ==
    AnnouncerResult(idx + 2, idx + 2, reached, ClockEpoch,
        <<IF target_node.audio_file # "" THEN target_node.audio_file
                                         ELSE "beep_checkpoint">>)
AdvanceWaypointTwoCues(target_node, idx, reached) ==
    AnnouncerResult(idx + 1, idx + 1, reached, ClockEpoch,
        <<IF target_node.audio_file # "" THEN target_node.audio_file
                                         ELSE "beep_checkpoint",
          "beep_checkpoint">>)
AdvanceWaypointKeepIndex(target_node, idx, reached) ==
    AnnouncerResult(idx, idx, reached, ClockEpoch,
        <<IF target_node.audio_file # "" THEN target_node.audio_file
                                         ELSE "beep_checkpoint">>)
AdvanceWaypoint(target_node, idx, reached) ==
    AnnouncerResult(idx + 1, idx + 1, reached, ClockEpoch,
        <<IF target_node.audio_file # "" THEN target_node.audio_file
                                         ELSE "beep_checkpoint">>)

\* Heading error towards the target: normalize_angle(atan2(dy, dx) - heading).
HeadingError(pose, target_node) ==
    normalize_angle(Atan2(target_node.position.y - pose[2],
                          target_node.position.x - pose[1]) - pose[3])

DistanceTo(pose, target_node) ==
    Hypot(target_node.position.x - pose[1], target_node.position.y - pose[2])

\* Announcer::update(current_pose, current_path, graph, hw) called at clock
\* instant t on the announcer fields (idx, reached, last).  current_path is
\* 0-based in the code: current_path[next_node_index] is p[idx + 1].
AnnouncerUpdate(pose, p, g, idx, reached, last, t) ==
    IF NavigationInactive(p, reached)
    THEN AnnouncerResult(-1, idx, reached, last, <<>>)
    ELSE IF RanOutOfNodes(idx, p)
    THEN (IF ~reached THEN Arrive(idx, last)
                      ELSE AnnouncerResult(-1, idx, reached, last, <<>>))
    ELSE LET target_id == p[idx + 1]
         IN  IF ~get_node(g, target_id)
             THEN AnnouncerResult(-1, idx, reached, last, <<>>)
             ELSE LET target_node == g[target_id]
                  IN  IF WaypointReached(DistanceTo(pose, target_node))
                      THEN AdvanceWaypoint(target_node, idx, reached)
                      ELSE IF CoolingDown(t - last)
                      THEN AnnouncerResult(idx, idx, reached, last, <<>>)
                      ELSE LET cue == TurnCue(HeadingError(pose, target_node))
                           IN  IF cue # ""
                               THEN AnnouncerResult(idx, idx, reached, t, <<cue>>)
                               ELSE AnnouncerResult(idx, idx, reached, last, <<>>)

----------------------------------------------------------------------------
(* PDR: step detection and heading integration.  Accelerations are in      *)
(* mm/s^2, angular rates in mrad/s.                                          *)

GRAVITY == 9810                 \* #define GRAVITY 9.81
STEP_THRESHOLD == 10791         \* step_threshold(1.1 * GRAVITY)
TWO_PI == 6283                  \* #define TWO_PI (2.0 * 3.1415926535)
STEP_LENGTH_K == 450            \* #define STEP_LENGTH_K 0.45
MIN_STEP_LENGTH == 300          \* if (estimated_length < 0.3)
MAX_STEP_LENGTH == 1000         \* if (estimated_length > 1.0)
SANITY_MARGIN == 100            \* max_accel = min_accel + 0.1

\* sqrt(ax^2 + ay^2 + az^2)
AccelMagnitude(imu_data) ==
    Sqrt(imu_data.acceleration_x * imu_data.acceleration_x
         + imu_data.acceleration_y * imu_data.acceleration_y
         + imu_data.acceleration_z * imu_data.acceleration_z)

\* accel_mag = (0.8 * previous_acceleration_magnitude) + (0.2 * accel_mag)
LowPass(previous, accel_mag) == (8 * previous + 2 * accel_mag) \div 10

\* PDR::detect_step: the value returned and the two fields afterwards.
detect_stepKeepArmed(imu_data, previous, peak) ==
    LET accel_mag == LowPass(previous, AccelMagnitude(imu_data))
    IN  [step_found |-> peak /\ accel_mag < previous,
         is_peak |-> IF ~peak THEN accel_mag > STEP_THRESHOLD ELSE TRUE,
         previous_acceleration_magnitude |-> accel_mag]
detect_stepAnyFall(imu_data, previous, peak) ==
    LET accel_mag == LowPass(previous, AccelMagnitude(imu_data))
    IN  [step_found |-> accel_mag < previous,
         is_peak |-> IF ~peak THEN accel_mag > STEP_THRESHOLD
                              ELSE ~(accel_mag < previous),
         previous_acceleration_magnitude |-> accel_mag]
detect_step(imu_data, previous, peak) ==
    LET accel_mag == LowPass(previous, AccelMagnitude(imu_data))
    IN  [step_found |-> peak /\ accel_mag < previous,
         is_peak |-> IF ~peak THEN accel_mag > STEP_THRESHOLD
                              ELSE ~(accel_mag < previous),
         previous_acceleration_magnitude |-> accel_mag]

\* std::pow(diff, 0.25) on thousandths
FourthRoot(diff) == Sqrt(Sqrt(diff * SCALE) * SCALE)

\* PDR::estimate_step_length, reading previous_acceleration_magnitude
estimate_step_lengthUnclamped(previous) ==
    LET max_accel == IF previous < GRAVITY THEN GRAVITY + SANITY_MARGIN
                                           ELSE previous
    IN  (STEP_LENGTH_K * FourthRoot(max_accel - GRAVITY)) \div SCALE
estimate_step_length(previous) ==
    LET max_accel == IF previous < GRAVITY THEN GRAVITY + SANITY_MARGIN
                                           ELSE previous
        estimated_length == (STEP_LENGTH_K * FourthRoot(max_accel - GRAVITY))
                              \div SCALE
    IN  IF estimated_length < MIN_STEP_LENGTH THEN MIN_STEP_LENGTH
        ELSE IF estimated_length > MAX_STEP_LENGTH THEN MAX_STEP_LENGTH
        ELSE estimated_length

\* double delta_theta = gyroscope_z * delta_time;
DeltaTheta(gyroscope_z, delta_time) == (gyroscope_z * delta_time) \div SCALE

\* PDR::update_heading: the two fields afterwards.
update_headingOverwrite(gyroscope_z, delta_time, accumulated, heading) ==
    LET delta_theta == DeltaTheta(gyroscope_z, delta_time)
        turned == heading + delta_theta
    IN  [accumulated_delta_heading |-> delta_theta,
         current_heading |-> IF turned > TWO_PI THEN turned - TWO_PI
                             ELSE IF turned < 0 THEN turned + TWO_PI
                             ELSE turned]
update_heading(gyroscope_z, delta_time, accumulated, heading) ==
    LET delta_theta == DeltaTheta(gyroscope_z, delta_time)
        turned == heading + delta_theta
    IN  [accumulated_delta_heading |-> accumulated + delta_theta,
         current_heading |-> IF turned > TWO_PI THEN turned - TWO_PI
                             ELSE IF turned < 0 THEN turned + TWO_PI
                             ELSE turned]

\* PDR::get_pdr_update: the PDRState returned and the accumulators afterwards.
get_pdr_updateKeepHeading(step, length, accumulated) ==
    [state |-> [step_detected |-> step, step_length |-> length,
                delta_heading |-> accumulated],
     new_step_detected |-> FALSE,
     last_step_length |-> 0,
     accumulated_delta_heading |-> accumulated]
get_pdr_update(step, length, accumulated) ==
    [state |-> [step_detected |-> step, step_length |-> length,
                delta_heading |-> accumulated],
     new_step_detected |-> FALSE,
     last_step_length |-> 0,
     accumulated_delta_heading |-> 0]

\* PDR::PDR()
PdrConstructed ==
    /\ previous_acceleration_magnitude = 0
    /\ is_peak = FALSE
    /\ current_heading = 0
    /\ accumulated_delta_heading = 0
    /\ new_step_detected = FALSE
    /\ last_step_length = 0
    /\ interval_samples = <<>>
    /\ drained_samples = <<>>
    /\ pdr_returns = <<>>
    /\ drains = 0
    /\ pdr_ops = 0
    /\ last_sample_step = FALSE

\* PDR pdr; pdr.initialize();
PdrInitialized ==
    /\ previous_acceleration_magnitude = GRAVITY
    /\ is_peak = FALSE
    /\ current_heading = 0
    /\ accumulated_delta_heading = 0
    /\ new_step_detected = FALSE
    /\ last_step_length = 0
    /\ interval_samples = <<>>
    /\ drained_samples = <<>>
    /\ pdr_returns = <<>>
    /\ drains = 0
    /\ pdr_ops = 0
    /\ last_sample_step = FALSE

----------------------------------------------------------------------------
(* BLEFingerpinting: k-nearest-neighbour matching of a scan against the   *)
(* radio map.  RSSI values are integers (dBm), positions in millimetres.   *)

RSSI_PENALTY == -100            \* const int RSSI_PENALTY = -100;

\* Fingerprint distances are kept in 1/300 dBm: distinct sums of squares up
\* to 22500 then have distinct square roots, as they have in double.
DISTANCE_SCALE == 300

\* BLEFingerpinting::BLEFingerpinting(int k) : k(k) { if (k < 1) k = 1; }
\* Inside the body the name k is the parameter: the member keeps the
\* argument it was initialised with.
Construct(k_given) == k_given

\* The map load_map() builds, whatever the file it is given.
PlaceholderMap ==
    << [rp_id |-> "RP_HALLWAY_START", position |-> [x |-> 0, y |-> 0],
        signal_strengths |-> [BEACON_ID_1 |-> -50, BEACON_ID_2 |-> -80,
                              BEACON_ID_3 |-> -90]],
       [rp_id |-> "RP_HALLWAY_MIDDLE", position |-> [x |-> 0, y |-> 5000],
        signal_strengths |-> [BEACON_ID_1 |-> -65, BEACON_ID_2 |-> -65,
                              BEACON_ID_3 |-> -85]],
       [rp_id |-> "RP_HALLWAY_END", position |-> [x |-> 0, y |-> 10000],
        signal_strengths |-> [BEACON_ID_1 |-> -90, BEACON_ID_2 |-> -50,
                              BEACON_ID_3 |-> -80]] >>

\* for (beacon : current_scan) current_scan_map[beacon.id] = beacon.rssi;
RECURSIVE ScanMap(_)
ScanMap(scan) ==
    IF scan = <<>> THEN [id \in {} |-> 0]
    ELSE LET front == ScanMap(SubSeq(scan, 1, Len(scan) - 1))
             beacon == scan[Len(scan)]
         IN  [id \in DOMAIN front \cup {beacon.id} |->
                 IF id = beacon.id THEN beacon.rssi ELSE front[id]]

\* The RSSI of a beacon in a fingerprint, or the penalty if it is not there.
RssiOrPenalty(fingerprint, id) ==
    IF id \in DOMAIN fingerprint THEN fingerprint[id] ELSE RSSI_PENALTY

RECURSIVE SumOfSquares(_, _, _)
SumOfSquares(ids, scan_a, scan_b) ==
    IF ids = {} THEN 0
    ELSE LET id == CHOOSE i \in ids : TRUE
             diff == RssiOrPenalty(scan_a, id) - RssiOrPenalty(scan_b, id)
         IN  diff * diff + SumOfSquares(ids \ {id}, scan_a, scan_b)

\* BLEFingerpinting::calculate_fingerprint_distance
calculate_fingerprint_distance(scan_a, scan_b) ==
    Sqrt(SumOfSquares(DOMAIN scan_a \cup DOMAIN scan_b, scan_a, scan_b)
         * DISTANCE_SCALE * DISTANCE_SCALE)

\* The vector of Neighbor built from the radio map.
Neighbors(radio_map, scan) ==
    [i \in 1..Len(radio_map) |->
        [distance |-> calculate_fingerprint_distance(
                          ScanMap(scan), radio_map[i].signal_strengths),
         position |-> radio_map[i].position]]

\* std::sort(neighbors.begin(), neighbors.end()): every arrangement in
\* ascending distance (the order of equal distances is not specified).
SortedNeighbors(neighbors) ==
    LET n == Len(neighbors)
        perms == {f \in [1..n -> 1..n] : \A i, j \in 1..n : i # j => f[i] # f[j]}
    IN  {[i \in 1..n |-> neighbors[f[i]]] :
            f \in {g \in perms : \A i \in 1..(n - 1) :
                       neighbors[g[i]].distance <= neighbors[g[i + 1]].distance}}

\* std::min(static_cast<int>(neighbors.size()), k)
NeighborsToAverageAll(size, k_member) == size
NeighborsToAverage(size, k_member) ==
    IF k_member < size THEN k_member ELSE size

\* return {0.0, 0.0}; of the empty-map test
EmptyMapPositionShifted == [x |-> 0, y |-> 1]
EmptyMapPosition == [x |-> 0, y |-> 0]

\* return {0.0, 0.0}; of the "No neighbors found" test
NoNeighborsPosition == [x |-> 0, y |-> 0]

\* Sum of the positions of the first count neighbors, divided by count.  A
\* negative count leaves the sums at 0.0 and 0.0 / count is zero.
Centroid(sorted, count) ==
    IF count < 0 THEN [x |-> 0, y |-> 0]
    ELSE [x |-> SeqSum([i \in 1..count |-> sorted[i].position.x]) \div count,
          y |-> SeqSum([i \in 1..count |-> sorted[i].position.y]) \div count]

\* BLEFingerpinting::find_closest_position: the positions it can return.
find_closest_position(radio_map, k_member, scan) ==
    IF radio_map = <<>> THEN {EmptyMapPosition}
    ELSE LET count == NeighborsToAverage(Len(radio_map), k_member)
         IN  IF count = 0 THEN {NoNeighborsPosition}
             ELSE {Centroid(sorted, count) :
                      sorted \in SortedNeighbors(Neighbors(radio_map, scan))}

\* BLEFingerpinting ble_fp(3); ble_fp.load_map(...)
LocalizerLoaded ==
    /\ k_arg = 3
    /\ ble_fp_k = Construct(3)
    /\ fingerprint_map = PlaceholderMap
    /\ current_scan = <<>>
    /\ ble_pos = [x |-> 0, y |-> 0]
    /\ ble_ops = 0

----------------------------------------------------------------------------
(* State of each component when it is not the one being exercised *)

Identity3 == <<<<SCALE, 0, 0>>, <<0, SCALE, 0>>, <<0, 0, SCALE>>>>

PathfinderIdle ==
    /\ pf_pc = "idle"
    /\ start_node_id = "RP_HALLWAY_START"
    /\ target_node_id = ""
    /\ open_set = {}
    /\ came_from = EmptyMap
    /\ g_score = EmptyMap
    /\ path = <<>>
    /\ pf_iterations = 0

NoPdrUpdate == [step_detected |-> FALSE, step_length |-> 0, delta_heading |-> 0]

\* An EKF call: its name, and the PDRState or the Position2D it was given.
EkfCall(op, pdr_state, ble_position) ==
    [op |-> op, pdr_state |-> pdr_state, ble_position |-> ble_position]

\* EKF::EKF() followed by ekf.initialize(0.0, 0.0, 0.0)
EkfConstructed ==
    /\ x = <<0, 0, 0>>
    /\ P = Identity3
    /\ ekf_ops = 0
    /\ ekf_call = EkfCall("initialize", NoPdrUpdate, <<0, 0>>)

\* Announcer::Announcer()
AnnouncerConstructed ==
    /\ next_node_index = 1
    /\ destination_reached = FALSE
    /\ last_announcement_time = now

MainIdle ==
    /\ pc = "idle"
    /\ is_navigating = FALSE
    /\ current_path = <<>>
    /\ now = 0
    /\ last_time = 0
    /\ dt = 0
    /\ key_press = "KEY_NONE"
    /\ ble_timer = 0
    /\ pdr_update = NoPdrUpdate

ObsInit ==
    /\ calls = <<>>
    /\ audio = <<>>
    /\ next_idx = 0
    /\ scan_times = <<>>
    /\ arrivals = 0
    /\ turn_cue_time = -1
    /\ waypoint_since_cue = FALSE
    /\ ticks = 0
    /\ scans_empty = <<>>
    /\ periodic_scans = <<>>

ExitOk == 0                 \* return 0;
ExitFailure == -1           \* return -1;

\* main() at "System Ready": the hardware came up and the map was loaded.
StartupDone ==
    /\ document = DocumentOf(nodes)
    /\ load_ok = TRUE
    /\ loads = 0
    /\ hw_ok = TRUE
    /\ radio_file_ok = TRUE
    /\ exit_code = ExitOk
    /\ power_switch = TRUE

----------------------------------------------------------------------------
(* Specification of the pathfinder: find_path on every map of GraphFamily *)
(* and every pair of ids.                                                  *)

InitPathfinder ==
    /\ nodes \in GraphFamily \cup LoopyFamily
    /\ start_node_id \in NodeIds
    /\ target_node_id \in NodeIds
    /\ pf_pc = "call"
    /\ open_set = {}
    /\ came_from = EmptyMap
    /\ g_score = EmptyMap
    /\ path = <<>>
    /\ pf_iterations = 0
    /\ EkfConstructed
    /\ MainIdle
    /\ AnnouncerConstructed
    /\ ObsInit
    /\ PdrInitialized
    /\ LocalizerLoaded
    /\ StartupDone

NextPathfinder ==
    \/ FindPathEnter   /\ UNCHANGED <<loaderVars, startVars, pdrVars, bleVars, nodes, ekfVars, annVars, mainVars, obsVars>>
    \/ FindPathIterate /\ UNCHANGED <<loaderVars, startVars, pdrVars, bleVars, nodes, ekfVars, annVars, mainVars, obsVars>>

SpecPathfinder == InitPathfinder /\ [][NextPathfinder]_vars

----------------------------------------------------------------------------
(* Specification of the pathfinder on maps as the loader leaves them: a   *)
(* document without RP_LOBBY whose other nodes still name it as a         *)
(* neighbor, at a cost the loader did not check.                          *)

GhostCosts == {Detour, 0 - Detour}

GhostNode(opt, ghost_cost, id) ==
    [GraphNode(opt, id) EXCEPT
        !.neighbors = [v \in DOMAIN @ |->
                          IF v = "RP_LOBBY" THEN ghost_cost ELSE @[v]]]

GhostFamily ==
    {[id \in NodeIds \ {"RP_LOBBY"} |-> GhostNode(opt, ghost_cost, id)] :
        opt \in [Pairs -> {"none", "exact"}], ghost_cost \in GhostCosts}

InitGhost ==
    /\ nodes \in GhostFamily
    /\ start_node_id \in NodeIds
    /\ target_node_id \in NodeIds
    /\ pf_pc = "call"
    /\ open_set = {}
    /\ came_from = EmptyMap
    /\ g_score = EmptyMap
    /\ path = <<>>
    /\ pf_iterations = 0
    /\ EkfConstructed
    /\ MainIdle
    /\ AnnouncerConstructed
    /\ ObsInit
    /\ PdrInitialized
    /\ LocalizerLoaded
    /\ StartupDone

GhostRest ==
    UNCHANGED <<loaderVars, startVars, pdrVars, bleVars, nodes, ekfVars,
                annVars, mainVars, obsVars>>

NextGhost ==
    \/ FindPathEnter   /\ GhostRest
    \/ FindPathIterate /\ GhostRest
    \/ NullDereference /\ GhostRest

SpecGhost == InitGhost /\ [][NextGhost]_vars

----------------------------------------------------------------------------
(* main(): the control loop *)

BLE_PERIOD == 5000          \* if (ble_timer > 5.0)
SCAN_LATENCY == 1000        \* scan_BLE() blocks for one second
MIN_DIST_INIT == 99999000   \* double min_dist = 99999.0;

\* Number of loop iterations explored.
MaxTicks == 4

\* Time that can pass between two iterations (sleep_for plus processing).
TickTimes == {1000, 6000}

\* Reading of the steady clock when the program starts.  Its epoch is not
\* specified: the program may start right at it or long after it.
StartClocks == {0, 100000}

KeyPresses == {"KEY_NONE", "KEY_WHERE_AM_I", "KEY_START_NAVIGATION",
               "KEY_CURRENT_SELECTION"}

\* The map loaded at startup: START - MIDDLE - END in a chain, LOBBY without
\* any edge.
MainEdges ==
    [pr \in Pairs |->
        IF pr \in {<<"RP_HALLWAY_MIDDLE", "RP_HALLWAY_START">>,
                   <<"RP_HALLWAY_END", "RP_HALLWAY_MIDDLE">>}
        THEN "exact" ELSE "none"]
MainGraph == GraphOf(MainEdges, NodeIds)

\* Values the filter state <<px, py, theta>> takes in the loop.  The filter
\* arithmetic is specified with the EKF; here its results range over poses
\* at, near and between the waypoints with several headings.
Poses == {<<0, 0, 0>>, <<0, 0, -HALF_PI>>, <<1500, 0, 0>>, <<2100, 0, -3000>>,
          <<3000, 3000, HALF_PI>>, <<0, 3500, 0>>}

\* Values returned by pdr.get_pdr_update() in the loop.
PdrUpdates == {NoPdrUpdate,
               [step_detected |-> FALSE, step_length |-> 0, delta_heading |-> 200],
               [step_detected |-> TRUE, step_length |-> 700, delta_heading |-> 0]}

Log(c) == calls' = calls \o c

\* The instants of the last two scans, t being the newest.
RecordScan(times, t) ==
    IF Len(times) < 2 THEN Append(times, t) ELSE <<times[2], t>>

TurnCues == {"turn_left", "turn_right"}

\* pdr.process_IMU_data(imu_data, dt); pdr.get_pdr_update(); ekf.predict(..)
PipelineCallsSkipPredict(key) ==
    IF key = "KEY_NONE"
    THEN <<"pdr.process_IMU_data", "pdr.get_pdr_update", "ekf.predict">>
    ELSE <<"pdr.process_IMU_data", "pdr.get_pdr_update">>
PipelineCalls(key) ==
    <<"pdr.process_IMU_data", "pdr.get_pdr_update", "ekf.predict">>

\* What hw->is_power_switch_on() can return: the switch may have gone off
\* since the program last looked; once off it stays off.
SwitchReadings(position) == IF position THEN BOOLEAN ELSE {FALSE}

\* while (hw->is_power_switch_on())
LoopContinuesAlways(power_on) == TRUE
LoopContinues(power_on) == power_on

\* if (ble_timer > 5.0)
ScanDueAtPeriod(timer) == timer >= BLE_PERIOD
ScanDue(timer) == timer > BLE_PERIOD

\* while (hw->is_power_switch_on()) { dt = now - last_time; last_time = now;
LoopTop ==
    /\ pc = "loop_top"
    /\ \E power_on \in SwitchReadings(power_switch) :
         /\ power_switch' = power_on
         /\ IF LoopContinues(power_on)
            THEN /\ ticks < MaxTicks
                 /\ dt' = now - last_time
                 /\ last_time' = now
                 /\ pc' = "read"
                 /\ UNCHANGED exit_code
            ELSE /\ pc' = "exit"
                 /\ exit_code' = ExitOk
                 /\ UNCHANGED <<dt, last_time>>
    /\ UNCHANGED <<loaderVars, hw_ok, radio_file_ok, pdrVars, bleVars, nodes, pfVars, ekfVars, annVars, is_navigating, current_path,
                   now, key_press, ble_timer, pdr_update, obsVars>>

\* A. Read Sensors
ReadSensors ==
    /\ pc = "read"
    /\ key_press' \in KeyPresses
    /\ Log(<<"hw.read_IMU", "hw.get_key_press">>)
    /\ pc' = "key"
    /\ UNCHANGED <<loaderVars, startVars, pdrVars, bleVars, nodes, pfVars, ekfVars, annVars, is_navigating, current_path,
                   last_time, now, dt, ble_timer, pdr_update, audio, next_idx,
                   scan_times, scans_empty, periodic_scans, arrivals, turn_cue_time, waypoint_since_cue,
                   ticks>>

\* B. KEY_NONE, and the default branch of the switch
KeyIgnored ==
    /\ pc = "key"
    /\ key_press \notin {"KEY_WHERE_AM_I", "KEY_START_NAVIGATION"}
    /\ pc' = "pdr"
    /\ UNCHANGED <<loaderVars, startVars, pdrVars, bleVars, nodes, pfVars, ekfVars, annVars, is_navigating, current_path,
                   last_time, now, dt, key_press, ble_timer, pdr_update, obsVars>>

\* B. case KEY_WHERE_AM_I: scan, locate, ekf.update, play "location_update"
KeyWhereAmI ==
    /\ pc = "key"
    /\ key_press = "KEY_WHERE_AM_I"
    /\ now' = now + SCAN_LATENCY
    /\ scan_times' = RecordScan(scan_times, last_time)
    /\ \E scan_empty \in BOOLEAN :
         scans_empty' = Append(scans_empty, scan_empty)
    /\ x' \in Poses
    /\ Log(<<"hw.scan_BLE", "ble_fp.find_closest_position", "ekf.update",
             "hw.play_audio">>)
    /\ audio' = Append(audio, "location_update")
    /\ pc' = "pdr"
    /\ UNCHANGED <<loaderVars, startVars, pdrVars, bleVars, nodes, pfVars, P, ekf_ops, ekf_call, annVars, is_navigating,
                   current_path, last_time, dt, key_press, ble_timer, pdr_update,
                   next_idx, arrivals, turn_cue_time, waypoint_since_cue, ticks,
                   periodic_scans>>

\* for (const auto& pair : graph.get_all_nodes()) { ... if (d < min_dist) ... }
RECURSIVE ClosestNode(_, _, _, _, _)
ClosestNode(g, state, ids, start_id, min_dist) ==
    IF ids = <<>> THEN start_id
    ELSE LET d == Hypot(g[Head(ids)].position.x - state[1],
                        g[Head(ids)].position.y - state[2])
         IN  IF d < min_dist
             THEN ClosestNode(g, state, Tail(ids), Head(ids), d)
             ELSE ClosestNode(g, state, Tail(ids), start_id, min_dist)

\* B. case KEY_START_NAVIGATION, up to the call of pathfinder.find_path
KeyStartNavigation ==
    /\ pc = "key"
    /\ key_press = "KEY_START_NAVIGATION"
    /\ start_node_id' = ClosestNode(nodes, x, Ordered(DOMAIN nodes),
                                    "RP_HALLWAY_START", MIN_DIST_INIT)
    /\ target_node_id' = "RP_HALLWAY_END"
    /\ pf_pc' = "call"
    /\ Log(<<"ekf.get_state", "pathfinder.find_path">>)
    /\ pc' = "find_path"
    /\ UNCHANGED <<loaderVars, startVars, pdrVars, bleVars, nodes, open_set, came_from, g_score, path,
                   pf_iterations, ekfVars, annVars,
                   is_navigating, current_path, last_time, now, dt, key_press,
                   ble_timer, pdr_update, audio, next_idx, scan_times, scans_empty, periodic_scans, arrivals,
                   turn_cue_time, waypoint_since_cue, ticks>>

\* Announcer::reset()
AnnouncerResetKeepArrival ==
    /\ next_node_index' = 1
    /\ UNCHANGED <<destination_reached, last_announcement_time>>
AnnouncerReset ==
    /\ next_node_index' = 1
    /\ destination_reached' = FALSE
    /\ UNCHANGED last_announcement_time

\* current_path = pathfinder.find_path(...): the result is assigned whether
\* or not it is empty.
AssignPathKeepOnFailure(found, old) == IF found = <<>> THEN old ELSE found
AssignPath(found, old) == found

\* B. case KEY_START_NAVIGATION, from the return of find_path
StartNavigationReturn ==
    /\ pc = "find_path"
    /\ pf_pc = "done"
    /\ current_path' = AssignPath(path, current_path)
    /\ IF path # <<>>
       THEN /\ is_navigating' = TRUE
            /\ AnnouncerReset
            /\ arrivals' = 0
            /\ Log(<<"announcer.reset", "hw.play_audio">>)
            /\ audio' = Append(audio, "navigation_started")
       ELSE /\ Log(<<"hw.play_audio">>)
            /\ audio' = Append(audio, "error_no_path")
            /\ UNCHANGED <<is_navigating, annVars, arrivals>>
    \* the locals of find_path are gone
    /\ pf_pc' = "idle"
    /\ open_set' = {}
    /\ came_from' = EmptyMap
    /\ g_score' = EmptyMap
    /\ path' = <<>>
    /\ pf_iterations' = 0
    /\ pc' = "pdr"
    /\ UNCHANGED <<loaderVars, startVars, pdrVars, bleVars, nodes, start_node_id, target_node_id, ekfVars, last_time,
                   now, dt, key_press, ble_timer, pdr_update, next_idx,
                   scan_times, scans_empty, periodic_scans, turn_cue_time, waypoint_since_cue, ticks>>

\* C.1 and C.2: pdr.process_IMU_data, pdr.get_pdr_update, ekf.predict
PositioningPipeline ==
    /\ pc = "pdr"
    /\ pdr_update' \in PdrUpdates
    /\ IF ~pdr_update'.step_detected
          /\ Abs(pdr_update'.delta_heading) <= HEADING_EPSILON
       THEN x' = x
       ELSE x' \in Poses
    /\ Log(PipelineCalls(key_press))
    /\ pc' = "ble"
    /\ UNCHANGED <<loaderVars, startVars, pdrVars, bleVars, nodes, pfVars, P, ekf_ops, ekf_call, annVars, is_navigating,
                   current_path, last_time, now, dt, key_press, ble_timer,
                   audio, next_idx, scan_times, scans_empty, periodic_scans, arrivals, turn_cue_time,
                   waypoint_since_cue, ticks>>

\* C.3: ble_timer += dt; if (ble_timer > 5.0) { scan; update; ble_timer = 0; }
BleCorrection ==
    /\ pc = "ble"
    /\ IF ScanDue(ble_timer + dt)
       THEN /\ now' = now + SCAN_LATENCY
            /\ scan_times' = RecordScan(scan_times, last_time)
            /\ periodic_scans' = Append(periodic_scans, last_time)
            /\ \E scan_empty \in BOOLEAN :
                 /\ scans_empty' = Append(scans_empty, scan_empty)
                 /\ IF scan_empty
                    THEN /\ Log(<<"hw.scan_BLE">>)
                         /\ x' = x
                    ELSE /\ Log(<<"hw.scan_BLE",
                                  "ble_fp.find_closest_position",
                                  "ekf.update">>)
                         /\ x' \in Poses
            /\ ble_timer' = 0
       ELSE /\ ble_timer' = ble_timer + dt
            /\ UNCHANGED <<now, scan_times, scans_empty, periodic_scans, x, calls>>
    /\ pc' = "announce"
    /\ UNCHANGED <<loaderVars, startVars, pdrVars, bleVars, nodes, pfVars, P, ekf_ops, ekf_call, annVars, is_navigating,
                   current_path, last_time, dt, key_press, pdr_update, audio,
                   next_idx, arrivals, turn_cue_time, waypoint_since_cue, ticks>>

\* D. if (is_navigating) next_idx = announcer.update(state, path, graph, hw)
Guidance ==
    /\ pc = "announce"
    /\ IF is_navigating
       THEN LET r == AnnouncerUpdate(x, current_path, nodes, next_node_index,
                                     destination_reached,
                                     last_announcement_time, now)
            IN  /\ next_node_index' = r.next_node_index
                /\ destination_reached' = r.destination_reached
                /\ last_announcement_time' = r.last_announcement_time
                /\ next_idx' = r.ret
                /\ audio' = audio \o r.cues
                /\ arrivals' = arrivals +
                       Len(SelectSeq(r.cues, LAMBDA c : c = "destination_reached"))
                /\ turn_cue_time' =
                       IF \E i \in 1..Len(r.cues) : r.cues[i] \in TurnCues
                       THEN now ELSE turn_cue_time
                /\ waypoint_since_cue' =
                       IF \E i \in 1..Len(r.cues) : r.cues[i] \in TurnCues
                       THEN FALSE
                       ELSE (waypoint_since_cue
                             \/ r.next_node_index # next_node_index)
                /\ Log(<<"ekf.get_state", "announcer.update">>
                         \o [i \in 1..Len(r.cues) |-> "hw.play_audio"])
       ELSE UNCHANGED <<annVars, next_idx, audio, arrivals, turn_cue_time,
                        waypoint_since_cue, calls>>
    /\ pc' = "sleep"
    /\ UNCHANGED <<loaderVars, startVars, pdrVars, bleVars, nodes, pfVars, ekfVars, is_navigating, current_path,
                   last_time, now, dt, key_press, ble_timer, pdr_update,
                   scan_times, scans_empty, periodic_scans, ticks>>

\* E. sleep_for(20 ms); the locals of the loop body go out of scope.
Sleep ==
    /\ pc = "sleep"
    /\ \E elapsed \in TickTimes : now' = now + elapsed
    /\ ticks' = ticks + 1
    /\ key_press' = "KEY_NONE"
    /\ pdr_update' = NoPdrUpdate
    /\ dt' = 0
    /\ next_idx' = 0
    /\ calls' = <<>>
    /\ audio' = <<>>
    /\ scans_empty' = <<>>
    /\ pc' = "loop_top"
    /\ UNCHANGED <<loaderVars, startVars, pdrVars, bleVars, nodes, pfVars, ekfVars, annVars, is_navigating, current_path,
                   last_time, ble_timer, scan_times, periodic_scans, arrivals, turn_cue_time,
                   waypoint_since_cue>>

\* State when the loop is entered (main.cpp up to "while").
Init ==
    /\ nodes = MainGraph
    /\ PathfinderIdle
    /\ EkfConstructed
    /\ now \in StartClocks
    /\ AnnouncerConstructed
    /\ pc = "loop_top"
    /\ is_navigating = FALSE
    /\ current_path = <<>>
    /\ last_time = now
    /\ dt = 0
    /\ key_press = "KEY_NONE"
    /\ ble_timer = 0
    /\ pdr_update = NoPdrUpdate
    /\ ObsInit
    /\ PdrInitialized
    /\ LocalizerLoaded
    /\ StartupDone

FindPathInLoop ==
    /\ pc = "find_path"
    /\ FindPathEnter \/ FindPathIterate
    /\ UNCHANGED <<loaderVars, startVars, pdrVars, bleVars, nodes, ekfVars, annVars, mainVars, obsVars>>

Next ==
    \/ LoopTop
    \/ ReadSensors
    \/ KeyIgnored
    \/ KeyWhereAmI
    \/ KeyStartNavigation
    \/ FindPathInLoop
    \/ StartNavigationReturn
    \/ PositioningPipeline
    \/ BleCorrection
    \/ Guidance
    \/ Sleep

Spec == Init /\ [][Next]_vars

----------------------------------------------------------------------------
(* Specification of the filter: sequences of initialize, predict, update *)

\* Number of EKF calls explored.
MaxEkfOps == 3

\* Arguments of ekf.initialize: the start pose of main(), and another one.
StartPoses == {<<0, 0, 0>>, <<1000, 2000, HALF_PI>>}

\* A step length whose square is beyond the largest finite double.
HugeStep == 1500000

\* PDR increments: no motion, a rotation below the threshold, rotations
\* without a step, steps with and without rotation, and a step of a length
\* that overflows the covariance.
PdrStates ==
    {[step_detected |-> sd, step_length |-> IF sd THEN 1000 ELSE 0,
      delta_heading |-> dh] : sd \in BOOLEAN, dh \in {0, 1, 200, -3000}}
    \cup {[step_detected |-> TRUE, step_length |-> HugeStep,
           delta_heading |-> 0]}

\* Position fixes of the localizer: centroids of the reference points of the
\* placeholder radio map, (0,0), (0,5) and (0,10).
BleFixes == {<<0, 0>>, <<0, 5000>>, <<0, 10000>>}

Initialize ==
    /\ ekf_ops < MaxEkfOps
    /\ \E s \in StartPoses :
         LET r == EkfInitialize(s[1], s[2], s[3])
         IN  /\ x' = r.x
             /\ P' = r.P
             /\ ekf_call' = EkfCall("initialize", NoPdrUpdate, <<s[1], s[2]>>)
    /\ ekf_ops' = ekf_ops + 1

Predict ==
    /\ ekf_ops < MaxEkfOps
    /\ \E u \in PdrStates :
         LET r == EkfPredict(x, P, u)
         IN  /\ x' = r.x
             /\ P' = r.P
             /\ ekf_call' = EkfCall("predict", u, <<0, 0>>)
    /\ ekf_ops' = ekf_ops + 1

Update ==
    /\ ekf_ops < MaxEkfOps
    /\ \E z \in BleFixes :
         LET r == EkfUpdate(x, P, z)
         IN  /\ x' = r.x
             /\ P' = r.P
             /\ ekf_call' = EkfCall("update", NoPdrUpdate, z)
    /\ ekf_ops' = ekf_ops + 1

InitEKF ==
    /\ nodes = MainGraph
    /\ PathfinderIdle
    /\ EkfConstructed
    /\ MainIdle
    /\ AnnouncerConstructed
    /\ ObsInit
    /\ PdrInitialized
    /\ LocalizerLoaded
    /\ StartupDone

NextEKF ==
    \/ Initialize /\ UNCHANGED <<loaderVars, startVars, pdrVars, bleVars, nodes, pfVars, annVars, mainVars, obsVars>>
    \/ Predict    /\ UNCHANGED <<loaderVars, startVars, pdrVars, bleVars, nodes, pfVars, annVars, mainVars, obsVars>>
    \/ Update     /\ UNCHANGED <<loaderVars, startVars, pdrVars, bleVars, nodes, pfVars, annVars, mainVars, obsVars>>

SpecEKF == InitEKF /\ [][NextEKF]_vars

----------------------------------------------------------------------------
(* Specification of the PDR: sequences of process_IMU_data and            *)
(* get_pdr_update calls after initialize().                                *)

\* Number of PDR calls explored.
MaxPdrOps == 6

\* IMU packets: a strong vertical push while turning left, a moderate
\* acceleration without rotation, and the packet of the simulated hardware
\* (0.98, 0.05, 0.1) with a fast turn to the right (more than one full turn
\* in a second).
ImuSamples ==
    {[acceleration_x |-> 0, acceleration_y |-> 0, acceleration_z |-> 20000,
      gyroscope_z |-> 500],
     [acceleration_x |-> 6000, acceleration_y |-> 2000,
      acceleration_z |-> 9000, gyroscope_z |-> 0],
     [acceleration_x |-> 980, acceleration_y |-> 50, acceleration_z |-> 100,
      gyroscope_z |-> -7000]}

\* Values of delta_time, in milliseconds.
DeltaTimes == {20, 1000}

\* PDR::process_IMU_data(imu_data, delta_time)
ProcessIMUData ==
    /\ pdr_ops < MaxPdrOps
    /\ \E imu_data \in ImuSamples : \E delta_time \in DeltaTimes :
         LET h == update_heading(imu_data.gyroscope_z, delta_time,
                                 accumulated_delta_heading, current_heading)
             d == detect_step(imu_data, previous_acceleration_magnitude,
                              is_peak)
             length == estimate_step_length(d.previous_acceleration_magnitude)
         IN  /\ accumulated_delta_heading' = h.accumulated_delta_heading
             /\ current_heading' = h.current_heading
             /\ is_peak' = d.is_peak
             /\ previous_acceleration_magnitude' =
                    d.previous_acceleration_magnitude
             /\ new_step_detected' = (d.step_found \/ new_step_detected)
             /\ last_step_length' =
                    IF d.step_found THEN length ELSE last_step_length
             /\ interval_samples' = Append(interval_samples,
                    [rotation |-> DeltaTheta(imu_data.gyroscope_z, delta_time),
                     step |-> d.step_found,
                     length |-> IF d.step_found THEN length ELSE 0])
             /\ last_sample_step' = d.step_found
    /\ pdr_returns' = <<>>
    /\ pdr_ops' = pdr_ops + 1
    /\ UNCHANGED <<pdr_update, drained_samples, drains>>

\* PDR::get_pdr_update()
GetPdrUpdate ==
    /\ pdr_ops < MaxPdrOps
    /\ LET r == get_pdr_update(new_step_detected, last_step_length,
                               accumulated_delta_heading)
       IN  /\ pdr_update' = r.state
           /\ new_step_detected' = r.new_step_detected
           /\ last_step_length' = r.last_step_length
           /\ accumulated_delta_heading' = r.accumulated_delta_heading
           /\ pdr_returns' = Append(pdr_returns, r.state)
    /\ drained_samples' = interval_samples
    /\ interval_samples' = <<>>
    /\ drains' = drains + 1
    /\ pdr_ops' = pdr_ops + 1
    /\ UNCHANGED <<previous_acceleration_magnitude, is_peak, current_heading,
                   last_sample_step>>

InitPDR ==
    /\ nodes = MainGraph
    /\ PathfinderIdle
    /\ EkfConstructed
    /\ MainIdle
    /\ AnnouncerConstructed
    /\ ObsInit
    /\ PdrInitialized
    /\ LocalizerLoaded
    /\ StartupDone

PdrRest == <<loaderVars, startVars, bleVars, nodes, pfVars, ekfVars, annVars, obsVars, pc,
             is_navigating, current_path, last_time, now, dt, key_press,
             ble_timer>>

NextPDR ==
    \/ ProcessIMUData /\ UNCHANGED PdrRest
    \/ GetPdrUpdate   /\ UNCHANGED PdrRest

SpecPDR == InitPDR /\ [][NextPDR]_vars

----------------------------------------------------------------------------
(* Specification of the localizer: construction with any k, load_map and   *)
(* find_closest_position on scans of the three beacons.                    *)

\* Number of find_closest_position calls explored.
MaxBleOps == 2

\* Constructor arguments.
KArgs == -1..4

\* RSSI readings a scan reports for a beacon.
RssiReadings == {-55, -62, -78, -90}

\* Scans: each of the three beacons absent or heard once, in id order; a
\* scan that hears a beacon twice; a scan with a beacon the map lacks.
Scans ==
    {SelectSeq(<<[id |-> "BEACON_ID_1", rssi |-> r[1]],
                 [id |-> "BEACON_ID_2", rssi |-> r[2]],
                 [id |-> "BEACON_ID_3", rssi |-> r[3]]>>,
               LAMBDA beacon : beacon.rssi # 0) :
        r \in [1..3 -> RssiReadings \cup {0}]}
    \cup {<<[id |-> "BEACON_ID_1", rssi |-> -90],
            [id |-> "BEACON_ID_1", rssi |-> -55]>>,
          <<[id |-> "BEACON_ID_9", rssi |-> -62],
            [id |-> "BEACON_ID_2", rssi |-> -55]>>}

\* BLEFingerpinting::load_map
LoadMap ==
    /\ fingerprint_map' = PlaceholderMap
    /\ UNCHANGED <<ble_fp_k, k_arg, current_scan, ble_pos, ble_ops>>

\* BLEFingerpinting::find_closest_position(current_scan)
FindClosestPosition ==
    /\ ble_ops < MaxBleOps
    /\ \E scan \in Scans :
         /\ current_scan' = scan
         /\ ble_pos' \in find_closest_position(fingerprint_map, ble_fp_k, scan)
    /\ ble_ops' = ble_ops + 1
    /\ UNCHANGED <<ble_fp_k, k_arg, fingerprint_map>>

InitBLE ==
    /\ nodes = MainGraph
    /\ PathfinderIdle
    /\ EkfConstructed
    /\ MainIdle
    /\ AnnouncerConstructed
    /\ ObsInit
    /\ PdrInitialized
    /\ StartupDone
    /\ k_arg \in KArgs
    /\ ble_fp_k = Construct(k_arg)
    /\ fingerprint_map = <<>>
    /\ current_scan = <<>>
    /\ ble_pos = [x |-> 0, y |-> 0]
    /\ ble_ops = 0

BleRest == <<loaderVars, startVars, pdrVars, nodes, pfVars, ekfVars, annVars, mainVars, obsVars>>

NextBLE ==
    \/ LoadMap             /\ UNCHANGED BleRest
    \/ FindClosestPosition /\ UNCHANGED BleRest

SpecBLE == InitBLE /\ [][NextBLE]_vars

\* C5: after any sequence of initialize, predict and update calls the stored
\* heading lies in (-pi, pi].  (-PI stands for -M_PI, which is above -pi.)
C5_HeadingWrapped == x[3] >= -PI /\ x[3] <= PI

----------------------------------------------------------------------------
(* Reference definitions for the pathfinder claims *)

\* Neighbors of u that are nodes of the graph.
Successors(g, u) == DOMAIN g[u].neighbors \cap DOMAIN g

SetMin(S) == CHOOSE m \in S : \A o \in S : m <= o

\* Least cost of a walk from s to v with at most k edges (Infinity if none).
RECURSIVE MinWalk(_, _, _, _)
MinWalk(g, s, v, k) ==
    IF k = 0 THEN (IF v = s THEN 0 ELSE Infinity)
    ELSE SetMin({MinWalk(g, s, v, k - 1)} \cup
                {MinWalk(g, s, u, k - 1) + g[u].neighbors[v] :
                    u \in {w \in DOMAIN g : v \in Successors(g, w)}})

MinCost(g, s, t) == MinWalk(g, s, t, Cardinality(DOMAIN g) - 1)

Reachable(g, s, t) == MinCost(g, s, t) < Infinity

IsWalk(g, p) ==
    /\ \A i \in 1..Len(p) : p[i] \in DOMAIN g
    /\ \A i \in 1..(Len(p) - 1) : p[i + 1] \in DOMAIN g[p[i]].neighbors

PathCost(g, p) == SeqSum([i \in 1..(Len(p) - 1) |-> g[p[i]].neighbors[p[i + 1]]])

NonNegativeCosts(g) ==
    \A u \in DOMAIN g : \A v \in DOMAIN g[u].neighbors : g[u].neighbors[v] >= 0

\* Every edge is at least as long as the straight line between its endpoints.
EuclideanAdmissible(g) ==
    \A u \in DOMAIN g : \A v \in Successors(g, u) :
        g[u].neighbors[v] >= get_distance(g, u, v)

\* C1: when the target is reachable from the start in a graph with
\* non-negative edge costs that are at least the Euclidean distances,
\* find_path returns a walk from the start to the target whose summed edge
\* weights equal the minimum path cost.
C1_FindPathOptimal ==
    ( /\ pf_pc = "done"
      /\ get_node(nodes, start_node_id)
      /\ get_node(nodes, target_node_id)
      /\ NonNegativeCosts(nodes)
      /\ EuclideanAdmissible(nodes)
      /\ Reachable(nodes, start_node_id, target_node_id) )
    => ( /\ path # <<>>
         /\ path[1] = start_node_id
         /\ path[Len(path)] = target_node_id
         /\ IsWalk(nodes, path)
         /\ PathCost(nodes, path) = MinCost(nodes, start_node_id, target_node_id) )

\* A search that returned a two-edge path although a direct, costlier edge
\* from the start to the target exists.
C1_Witness ==
    /\ pf_pc = "done"
    /\ Len(path) = 3
    /\ IsWalk(nodes, path)
    /\ path[3] \in DOMAIN nodes[path[1]].neighbors
    /\ PathCost(nodes, path) < nodes[path[1]].neighbors[path[3]]

----------------------------------------------------------------------------
(* Claims about the control loop and the announcer *)

Count(seq, v) == Cardinality({i \in 1..Len(seq) : seq[i] = v})

Contains(seq, v) == \E i \in 1..Len(seq) : seq[i] = v

\* C2: at most one BLE correction (ekf.update) is applied in a single tick.
C2_AtMostOneUpdatePerTick == Count(calls, "ekf.update") <= 1

\* C3: hw.scan_BLE() is invoked at most once in any 5-second window of
\* accumulated loop time: two successive scans are at least 5 s apart.
C3_ScanOncePerWindow ==
    Len(scan_times) = 2 => scan_times[2] - scan_times[1] >= BLE_PERIOD

KeyStageCalls == {"hw.scan_BLE", "ble_fp.find_closest_position", "ekf.update",
                  "hw.play_audio", "ekf.get_state", "pathfinder.find_path",
                  "announcer.reset"}
BleStageCalls == {"hw.scan_BLE", "ble_fp.find_closest_position", "ekf.update"}
AnnouncerStageCalls == {"ekf.get_state", "announcer.update", "hw.play_audio"}

\* The calls of a completed tick are: read IMU, poll key; key handling; PDR
\* process, drain, one ekf.predict; the periodic BLE update; the announcer.
StagesInOrder(log) ==
    \E k \in 5..Len(log) : \E m \in k..Len(log) :
        /\ log[1] = "hw.read_IMU"
        /\ log[2] = "hw.get_key_press"
        /\ \A i \in 3..(k - 3) : log[i] \in KeyStageCalls
        /\ log[k - 2] = "pdr.process_IMU_data"
        /\ log[k - 1] = "pdr.get_pdr_update"
        /\ log[k] = "ekf.predict"
        /\ \A i \in (k + 1)..m : log[i] \in BleStageCalls
        /\ \A i \in (m + 1)..Len(log) : log[i] \in AnnouncerStageCalls

\* C4: within every tick the stages run in the fixed order, exactly one
\* ekf.predict happens per tick whatever the key, and a tick starts (with the
\* sensor read) only when nothing of the previous tick is pending.
C4_StageOrder ==
    /\ pc = "sleep" => /\ StagesInOrder(calls)
                       /\ Count(calls, "ekf.predict") = 1
                       /\ Count(calls, "announcer.update") <= 1
    /\ pc \in {"loop_top", "read"} => calls = <<>>
    /\ calls # <<>> => calls[1] = "hw.read_IMU"
    /\ Count(calls, "ekf.predict") <= 1

\* A tick in which a key was handled, the periodic scan ran and the announcer
\* was updated.
C4_Witness ==
    /\ pc = "sleep"
    /\ key_press = "KEY_WHERE_AM_I"
    /\ Count(calls, "hw.scan_BLE") = 2
    /\ Contains(calls, "announcer.update")

\* The step of the loop that calls announcer.update.
GuidanceCall == pc = "announce" /\ is_navigating /\ pc' = "sleep"

\* C6 as stated: during navigation next_node_index lies in [1, |path|].
C6_IndexInRangeAlways ==
    is_navigating => next_node_index \in 1..Len(current_path)

\* C6 (amended): whenever the current path is non-empty, next_node_index lies
\* in [1, |path|]; and when it equals |path| the next update leaves
\* destination_reached true.
C6_IndexInRange ==
    /\ [](current_path # <<>> => next_node_index \in 1..Len(current_path))
    /\ [][(GuidanceCall /\ current_path # <<>>
             /\ next_node_index = Len(current_path))
          => destination_reached']_vars

\* The last waypoint of a path of several nodes was reached and the arrival
\* was announced.
C6_Witness ==
    /\ Len(current_path) >= 2
    /\ next_node_index = Len(current_path)
    /\ destination_reached
    /\ Contains(audio, "destination_reached")

\* C7: between two resets the cue destination_reached is played at most
\* once; once played, every further update returns -1, plays no audio and
\* changes no announcer state.
C7_ArrivalOnce ==
    /\ [](arrivals <= 1)
    /\ [][(GuidanceCall /\ arrivals >= 1)
          => (next_idx' = -1 /\ audio' = audio /\ UNCHANGED annVars)]_vars

\* An update made after the arrival cue of the session had been played.
C7_Witness ==
    /\ pc = "sleep"
    /\ arrivals = 1
    /\ Contains(calls, "announcer.update")
    /\ ~Contains(audio, "destination_reached")
    /\ next_idx = -1

\* The target of the next update, when it has one in the graph.
HasTarget ==
    /\ next_node_index < Len(current_path)
    /\ get_node(nodes, current_path[next_node_index + 1])
TargetNode == nodes[current_path[next_node_index + 1]]

\* C8: an update with next_node_index < |path|, the target in the graph and
\* the pose strictly closer than 1.5 m plays exactly one cue (the node's cue
\* if non-empty, else beep_checkpoint), increments next_node_index by one and
\* returns the new index.
C8_WaypointAdvance ==
    [][(GuidanceCall /\ HasTarget
          /\ DistanceTo(x, TargetNode) < WAYPOINT_REACHED_RADIUS)
       => /\ audio' = Append(audio, IF TargetNode.audio_file # ""
                                    THEN TargetNode.audio_file
                                    ELSE "beep_checkpoint")
          /\ next_node_index' = next_node_index + 1
          /\ next_idx' = next_node_index + 1]_vars

\* Path [START, MIDDLE, END], pose near MIDDLE: update returned 2 and played
\* the cue of MIDDLE.
C8_Witness ==
    /\ pc = "sleep"
    /\ Len(current_path) = 3
    /\ next_idx = 2
    /\ next_node_index = 2
    /\ audio # <<>>
    /\ audio[Len(audio)] = nodes[current_path[2]].audio_file

\* An update inside the 3 s after the last turn cue, with a target that is
\* not within the reached radius.
InCueWindow ==
    /\ GuidanceCall
    /\ turn_cue_time >= 0
    /\ now < turn_cue_time + ANNOUNCEMENT_COOLDOWN
    /\ ~destination_reached
    /\ HasTarget
    /\ DistanceTo(x, TargetNode) >= WAYPOINT_REACHED_RADIUS

Silent == audio' = audio /\ next_idx' = next_node_index
                         /\ next_node_index' = next_node_index

\* C9 as stated: after a turn cue at t, every update before t + 3.0 s whose
\* target is not within the reached radius plays nothing and returns the
\* unchanged index.
C9_CooldownAlways == [][InCueWindow => Silent]_vars

\* C9 (amended): the same, for the updates made before a waypoint is reached
\* after that cue.
C9_Cooldown == [][(InCueWindow /\ ~waypoint_since_cue) => Silent]_vars

\* A silent update later than the cue and inside its cooldown.
C9_Witness ==
    /\ pc = "sleep"
    /\ turn_cue_time >= 0
    /\ now > turn_cue_time
    /\ now < turn_cue_time + ANNOUNCEMENT_COOLDOWN
    /\ ~waypoint_since_cue
    /\ next_idx = next_node_index
    /\ next_node_index < Len(current_path)
    /\ DistanceTo(x, TargetNode) >= WAYPOINT_REACHED_RADIUS
    /\ audio = <<>>

\* C10: at the guidance step (target not reached, cooldown elapsed) with
\* heading error e: turn_left is played and the instant stamped iff
\* e > 0.35, turn_right and stamped iff e < -0.35, otherwise nothing is
\* played and the instant is unchanged.
C10_TurnCue ==
    [][(/\ GuidanceCall
        /\ ~destination_reached
        /\ HasTarget
        /\ DistanceTo(x, TargetNode) >= WAYPOINT_REACHED_RADIUS
        /\ now - last_announcement_time >= ANNOUNCEMENT_COOLDOWN)
       => LET e == normalize_angle(
                     Atan2(TargetNode.position.y - x[2],
                           TargetNode.position.x - x[1]) - x[3])
              stamped == last_announcement_time' = now
          IN  /\ (audio' = Append(audio, "turn_left") /\ stamped)
                    <=> e > TURN_THRESHOLD
              /\ (audio' = Append(audio, "turn_right") /\ stamped)
                    <=> e < -TURN_THRESHOLD
              /\ (e <= TURN_THRESHOLD /\ e >= -TURN_THRESHOLD)
                    => (audio' = audio /\ UNCHANGED last_announcement_time)
              /\ next_idx' = next_node_index]_vars

\* turn_right played for a target on the left-hand side of the x axis whose
\* raw bearing difference exceeds pi (the error wrapped around).
C10_Witness ==
    /\ pc = "sleep"
    /\ audio # <<>>
    /\ audio[Len(audio)] = "turn_right"
    /\ last_announcement_time = now
    /\ next_node_index < Len(current_path)
    /\ Atan2(TargetNode.position.y - x[2], TargetNode.position.x - x[1]) - x[3] > PI

\* C11: Announcer::update called with an empty path returns -1, plays no
\* audio cue and leaves next_node_index, destination_reached and the
\* announcement instant unchanged, whatever the announcer state and the pose.
C11_EmptyPath ==
    [][(GuidanceCall /\ current_path = <<>>)
       => (next_idx' = -1 /\ audio' = audio /\ UNCHANGED annVars)]_vars

\* An update made with the empty path left by a failed START_NAVIGATION, on
\* an announcer that had advanced and had not arrived.
C11_Witness ==
    /\ pc = "sleep"
    /\ current_path = <<>>
    /\ Contains(calls, "announcer.update")
    /\ next_idx = -1
    /\ next_node_index > 1
    /\ ~destination_reached

\* The step of the loop that takes the result of find_path.
StartNavigationStep == pc = "find_path" /\ pf_pc = "done" /\ pc' = "pdr"

Before(log, a, b) ==
    \E i \in 1..Len(log) : \E j \in (i + 1)..Len(log) : log[i] = a /\ log[j] = b

\* C12: on a START_NAVIGATION key, a non-empty result of find_path sets
\* is_navigating, resets the announcer (next_node_index = 1,
\* destination_reached = false) and plays navigation_started, all before the
\* announcer.update of that tick; an empty result plays error_no_path, not
\* navigation_started, and leaves is_navigating as it was.
C12_StartNavigation ==
    /\ [][StartNavigationStep
           => IF path # <<>>
              THEN /\ is_navigating'
                   /\ current_path' = path
                   /\ next_node_index' = 1
                   /\ ~destination_reached'
                   /\ audio' = Append(audio, "navigation_started")
              ELSE /\ audio' = Append(audio, "error_no_path")
                   /\ is_navigating' = is_navigating
                   /\ UNCHANGED annVars]_vars
    /\ []((pc = "sleep" /\ Contains(audio, "navigation_started"))
            => /\ is_navigating
               /\ ~Contains(audio, "error_no_path")
               /\ Before(calls, "pathfinder.find_path", "announcer.reset")
               /\ Before(calls, "announcer.reset", "announcer.update")
               /\ Count(calls, "announcer.update") = 1)
    /\ []((pc = "sleep" /\ Contains(audio, "error_no_path"))
            => ~Contains(audio, "navigation_started"))

\* A session started in a later tick on the path START, MIDDLE, END: the
\* announcer was reset and then updated in the same tick.
C12_Witness ==
    /\ pc = "sleep"
    /\ key_press = "KEY_START_NAVIGATION"
    /\ Contains(audio, "navigation_started")
    /\ Len(current_path) = 3
    /\ ticks >= 2
    /\ next_node_index = 1
    /\ next_idx = 1

----------------------------------------------------------------------------
(* Claims about the PDR *)

\* C13: get_pdr_update zeroes the three accumulators as part of the read; a
\* drain that follows a drain with no process_IMU_data in between returns
\* step_detected = false, step_length = 0 and delta_heading = 0.
C13_DrainIdempotent ==
    pdr_returns # <<>>
    => /\ ~new_step_detected
       /\ last_step_length = 0
       /\ accumulated_delta_heading = 0
       /\ pdr_update = pdr_returns[Len(pdr_returns)]
       /\ \A i \in 2..Len(pdr_returns) : pdr_returns[i] = NoPdrUpdate

\* Two drains in a row, the first of which returned a step and a rotation.
C13_Witness ==
    /\ Len(pdr_returns) = 2
    /\ pdr_returns[1].step_detected
    /\ pdr_returns[1].step_length > 0
    /\ pdr_returns[1].delta_heading # 0
    /\ pdr_returns[2] = NoPdrUpdate

\* The samples of an interval in which a step fired.
StepSamples(samples) == {i \in 1..Len(samples) : samples[i].step}

LastOf(S) == CHOOSE i \in S : \A j \in S : j <= i

\* C14: a drain returns step_detected = true iff at least one step fired
\* since the previous drain, the length estimated for the most recent of
\* those steps, and the sum of gz * dt over exactly the samples processed
\* since the previous drain.
C14_DrainCollapses ==
    pdr_returns # <<>>
    => /\ pdr_update.step_detected = (StepSamples(drained_samples) # {})
       /\ StepSamples(drained_samples) # {}
            => pdr_update.step_length =
                 drained_samples[LastOf(StepSamples(drained_samples))].length
       /\ pdr_update.delta_heading =
            SeqSum([i \in 1..Len(drained_samples) |->
                       drained_samples[i].rotation])

\* A second drain, after an interval in which two steps of different lengths
\* fired and the rotations did not cancel.
C14_Witness ==
    /\ drains = 2
    /\ Len(pdr_returns) = 1
    /\ Cardinality(StepSamples(drained_samples)) = 2
    /\ \E i, j \in StepSamples(drained_samples) :
          /\ i < j
          /\ drained_samples[i].length # drained_samples[j].length
          /\ pdr_update.step_length = drained_samples[j].length
    /\ pdr_update.delta_heading # 0

----------------------------------------------------------------------------
(* Further claims about the pathfinder *)

\* C15: for every node s of the graph, whatever its neighbor map,
\* find_path(s, s) returns exactly the one-element sequence [s].
C15_SameNode ==
    (pf_pc = "done" /\ start_node_id = target_node_id
       /\ get_node(nodes, start_node_id))
    => path = <<start_node_id>>

\* find_path(s, s) returned on a node that has a self-loop and lies on a
\* cycle of zero-cost edges.
C15_Witness ==
    /\ pf_pc = "done"
    /\ start_node_id = target_node_id
    /\ get_node(nodes, start_node_id)
    /\ start_node_id \in DOMAIN nodes[start_node_id].neighbors
    /\ \E v \in Successors(nodes, start_node_id) \ {start_node_id} :
          /\ nodes[start_node_id].neighbors[v] = 0
          /\ start_node_id \in DOMAIN nodes[v].neighbors
    /\ path = <<start_node_id>>

\* C16: if the start id or the target id is not a node of the graph,
\* find_path returns the empty sequence without performing any search, and
\* the graph is left unmodified.
C16_MissingNode ==
    /\ []((pf_pc = "done"
            /\ (~get_node(nodes, start_node_id)
                  \/ ~get_node(nodes, target_node_id)))
          => (path = <<>> /\ open_set = {} /\ came_from = EmptyMap
                /\ g_score = EmptyMap))
    /\ [][nodes' = nodes]_vars

\* find_path returned for a target that is not in the map although a
\* neighbor map of the start names it.
C16_Witness ==
    /\ pf_pc = "done"
    /\ get_node(nodes, start_node_id)
    /\ ~get_node(nodes, target_node_id)
    /\ target_node_id \in DOMAIN nodes[start_node_id].neighbors
    /\ path = <<>>

\* Iterations of the loop of find_path on a map of four nodes: each pops one
\* entry, and an entry is pushed only when a g_score strictly improves.
IterationLimit == 5

\* C17: on every graph with non-negative edge costs find_path terminates:
\* every queued id names a node, so that the iteration that pops it can be
\* carried out, and the call returns within IterationLimit iterations of
\* its loop.  When the target exists but is not reachable from the start,
\* the open set empties and the result is the empty sequence.
C17_Terminates ==
    /\ NonNegativeCosts(nodes)
    /\ pf_pc = "loop" => \A e \in open_set : get_node(nodes, e.id)
    /\ pf_iterations <= IterationLimit
    /\ (pf_pc = "done"
          /\ get_node(nodes, start_node_id)
          /\ get_node(nodes, target_node_id)
          /\ ~Reachable(nodes, start_node_id, target_node_id))
       => (path = <<>> /\ open_set = {})

\* A search that ended with an empty queue after exploring a zero-cost cycle
\* that does not contain the target.
C17_Witness ==
    /\ pf_pc = "done"
    /\ get_node(nodes, start_node_id)
    /\ get_node(nodes, target_node_id)
    /\ ~Reachable(nodes, start_node_id, target_node_id)
    /\ \E v \in Successors(nodes, start_node_id) \ {start_node_id} :
          /\ nodes[start_node_id].neighbors[v] = 0
          /\ start_node_id \in DOMAIN nodes[v].neighbors
          /\ g_score[v] = 0
    /\ path = <<>>
    /\ open_set = {}

----------------------------------------------------------------------------
(* Claims about the localizer *)

\* The step that makes a find_closest_position call.
FindStep == ble_ops' = ble_ops + 1

\* The reading of a beacon in a scan (the last one if it is heard twice),
\* or -100 if the scan does not have it.
Reading(scan, id) ==
    LET heard == {i \in 1..Len(scan) : scan[i].id = id}
    IN  IF heard = {} THEN -100
        ELSE scan[CHOOSE i \in heard : \A j \in heard : j <= i].rssi

Stored(rp, id) ==
    IF id \in DOMAIN rp.signal_strengths THEN rp.signal_strengths[id] ELSE -100

RECURSIVE SquaredDifferences(_, _, _)
SquaredDifferences(ids, scan, rp) ==
    IF ids = {} THEN 0
    ELSE LET id == CHOOSE i \in ids : TRUE
         IN  (Reading(scan, id) - Stored(rp, id))
               * (Reading(scan, id) - Stored(rp, id))
             + SquaredDifferences(ids \ {id}, scan, rp)

\* Squared fingerprint distance over the union of the beacon ids.
FingerprintDistance2(scan, rp) ==
    SquaredDifferences({scan[i].id : i \in 1..Len(scan)}
                         \cup DOMAIN rp.signal_strengths, scan, rp)

RECURSIVE SumOver(_, _)
SumOver(S, f) ==
    IF S = {} THEN 0
    ELSE LET i == CHOOSE j \in S : TRUE IN f[i] + SumOver(S \ {i}, f)

\* pos is the simple mean of the positions of count reference points of the
\* map none of which is farther from the scan than one left out.
MeanOfNearest(pos, radio_map, scan, count) ==
    \E chosen \in SUBSET (1..Len(radio_map)) :
        /\ Cardinality(chosen) = count
        /\ \A i \in chosen : \A j \in (1..Len(radio_map)) \ chosen :
              FingerprintDistance2(scan, radio_map[i])
                <= FingerprintDistance2(scan, radio_map[j])
        /\ pos.x = SumOver(chosen, [i \in chosen |-> radio_map[i].position.x])
                     \div count
        /\ pos.y = SumOver(chosen, [i \in chosen |-> radio_map[i].position.y])
                     \div count

SimulatedScan == <<[id |-> "BEACON_ID_1", rssi |-> -55],
                   [id |-> "BEACON_ID_2", rssi |-> -78],
                   [id |-> "BEACON_ID_3", rssi |-> -62]>>

\* C18: on a map of N >= 1 reference points, with k >= 1,
\* find_closest_position returns the simple mean of the positions of the
\* min(k, N) reference points nearest to the scan, the distance summing the
\* squared RSSI differences over the union of the beacon ids with -100 for a
\* missing entry; on the placeholder map the scan {-55, -78, -62} with k = 2
\* gives (0, 2.5).
C18_NearestCentroid ==
    [][(FindStep /\ fingerprint_map # <<>> /\ ble_fp_k >= 1)
       => /\ MeanOfNearest(ble_pos', fingerprint_map, current_scan',
                IF ble_fp_k < Len(fingerprint_map) THEN ble_fp_k
                                                   ELSE Len(fingerprint_map))
          /\ (current_scan' = SimulatedScan /\ ble_fp_k = 2)
               => ble_pos' = [x |-> 0, y |-> 2500]]_vars

\* The scan of the simulated hardware located with k = 2 on the placeholder
\* map.
C18_Witness ==
    /\ ble_ops > 0
    /\ fingerprint_map = PlaceholderMap
    /\ ble_fp_k = 2
    /\ current_scan = SimulatedScan
    /\ ble_pos = [x |-> 0, y |-> 2500]

\* C19 as stated: find_closest_position returns (0, 0) exactly when the
\* radio map is empty.
C19_OriginIffEmpty ==
    [][FindStep
       => (ble_pos' = [x |-> 0, y |-> 0] <=> fingerprint_map = <<>>)]_vars

\* C19 (amended): find_closest_position returns (0, 0) whenever the radio
\* map is empty, for every constructor argument and every scan.
C19_OriginWhenEmpty ==
    [][(FindStep /\ fingerprint_map = <<>>)
       => ble_pos' = [x |-> 0, y |-> 0]]_vars

\* A non-empty scan located before any map was loaded.
C19_Witness ==
    /\ ble_ops > 0
    /\ fingerprint_map = <<>>
    /\ current_scan = SimulatedScan
    /\ ble_pos = [x |-> 0, y |-> 0]

\* C20: a localizer constructed with k < 1 uses k = 1: on a non-empty map
\* find_closest_position returns the position of the single nearest
\* reference point.
C20_ClampedToOne ==
    [][(FindStep /\ k_arg < 1 /\ fingerprint_map # <<>>)
       => MeanOfNearest(ble_pos', fingerprint_map, current_scan', 1)]_vars

----------------------------------------------------------------------------
(* Claims about the filter *)

\* The step that makes the EKF call recorded in ekf_call'.
EkfStep(op) == ekf_ops' = ekf_ops + 1 /\ ekf_call'.op = op

\* S has an inverse in doubles: its determinant is finite and not zero.
Invertible(S) == Finite(Determinant2(S)) /\ Determinant2(S) # 0

\* C21: an update whose innovation covariance S cannot be inverted drops the
\* measurement: x and P after the call are x and P before it.
C21_SingularDropped ==
    [][(EkfStep("update") /\ ~Invertible(InnovationCovariance(P)))
       => (x' = x /\ P' = P)]_vars

\* theta is delta more than the heading before, up to whole turns, and
\* within [-pi, pi].
WrappedSum(theta, before, delta) ==
    /\ theta >= -PI /\ theta <= PI
    /\ \E turns \in -2..2 : theta = before + delta + turns * 2 * PI

\* C22: a predict call with step_detected = false leaves px, py and P as
\* they were; it sets theta to wrap(theta + delta_heading) if
\* |delta_heading| > 0.001 and leaves theta as well otherwise.
C22_NoStepPredict ==
    [][(EkfStep("predict") /\ ~ekf_call'.pdr_state.step_detected)
       => /\ x'[1] = x[1] /\ x'[2] = x[2] /\ P' = P
          /\ IF Abs(ekf_call'.pdr_state.delta_heading) > HEADING_EPSILON
             THEN Finite(x[3]) =>
                    WrappedSum(x'[3], x[3], ekf_call'.pdr_state.delta_heading)
             ELSE x'[3] = x[3]]_vars

\* A rotation without a step, after a step that rotated as well: the heading
\* went from -3.0 through -6.0 to 0.284 and P is the one the step left.
C22_Witness ==
    /\ ekf_call.op = "predict"
    /\ ~ekf_call.pdr_state.step_detected
    /\ ekf_call.pdr_state.delta_heading = -3000
    /\ x[3] = 2 * PI - 6000
    /\ P # Identity3
    /\ \A i, j \in 1..3 : Finite(P[i][j])

Symmetric3(A) == \A i, j \in 1..3 : A[i][j] = A[j][i]

\* Principal minors of a 3x3 matrix.
Minor2(A, i, j) == Sub(Mul(A[i][i], A[j][j]), Mul(A[i][j], A[j][i]))
Determinant3(A) ==
    Add(Sub(Mul(A[1][1], Sub(Mul(A[2][2], A[3][3]), Mul(A[2][3], A[3][2]))),
            Mul(A[1][2], Sub(Mul(A[2][1], A[3][3]), Mul(A[2][3], A[3][1])))),
        Mul(A[1][3], Sub(Mul(A[2][1], A[3][2]), Mul(A[2][2], A[3][1]))))

\* A symmetric matrix is positive-semidefinite iff no principal minor is
\* negative.
PositiveSemidefinite3(A) ==
    /\ \A i, j \in 1..3 : Finite(A[i][j])
    /\ \A i \in 1..3 : A[i][i] >= 0
    /\ \A i, j \in 1..3 : i < j => Finite(Minor2(A, i, j)) /\ Minor2(A, i, j) >= 0
    /\ Finite(Determinant3(A)) /\ Determinant3(A) >= 0

\* C23: after every predict and every update, in any sequence of calls that
\* starts with initialize, P is symmetric and positive-semidefinite.
C23_SymmetricPSD == Symmetric3(P) /\ PositiveSemidefinite3(P)

----------------------------------------------------------------------------
(* Specification of the map loader: load_from_json on a NavigationGraph   *)
(* that starts without nodes.                                              *)

\* Number of loads explored, and the largest number of elements of a
\* "nodes" array.
MaxLoads == 2
MaxItems == 2

\* The "neighbors" objects of the documents: none, an edge to a waypoint,
\* an edge to RP_LOBBY (which no document has as a node), an edge of
\* negative cost.
NeighborObjects ==
    {[v \in {} |-> 0],
     [v \in {"RP_HALLWAY_MIDDLE"} |-> 3000],
     [v \in {"RP_LOBBY"} |-> 4000],
     [v \in {"RP_HALLWAY_START"} |-> -1000]}

LoaderItems ==
    {Item(id, NodePosition(id), "", neighbors) :
        id \in {"RP_HALLWAY_START", "RP_HALLWAY_MIDDLE"},
        neighbors \in NeighborObjects}

LoaderFiles ==
    {Unreadable, Malformed}
    \cup {Parsed(items) :
            items \in UNION {[1..n -> LoaderItems] : n \in 0..MaxItems}}

\* graph.load_from_json(file)
LoadFromJson ==
    /\ loads < MaxLoads
    /\ \E file \in LoaderFiles :
         LET r == load_from_json(file, nodes)
         IN  /\ document' = file
             /\ load_ok' = r.ok
             /\ nodes' = r.nodes
    /\ loads' = loads + 1

InitLoader ==
    /\ nodes = EmptyGraph
    /\ PathfinderIdle
    /\ EkfConstructed
    /\ MainIdle
    /\ AnnouncerConstructed
    /\ ObsInit
    /\ PdrInitialized
    /\ LocalizerLoaded
    /\ document = Unreadable
    /\ load_ok = FALSE
    /\ loads = 0
    /\ hw_ok = TRUE
    /\ radio_file_ok = TRUE
    /\ exit_code = ExitOk
    /\ power_switch = TRUE

LoaderRest == <<pfVars, ekfVars, annVars, mainVars, obsVars, pdrVars, bleVars,
                startVars>>

NextLoader == LoadFromJson /\ UNCHANGED LoaderRest

SpecLoader == InitLoader /\ [][NextLoader]_vars

\* Two elements of the "nodes" array have the same id.
DuplicateIds(items) ==
    \E i, j \in 1..Len(items) : i # j /\ items[i].id = items[j].id

\* A "neighbors" key is not the id of an element of the array.
DanglingNeighbor(items) ==
    \E i \in 1..Len(items) : \E v \in DOMAIN items[i].neighbors :
        \A j \in 1..Len(items) : items[j].id # v

NegativeCost(items) ==
    \E i \in 1..Len(items) : \E v \in DOMAIN items[i].neighbors :
        items[i].neighbors[v] < 0

\* Every neighbors key of the graph is a node of it and no cost is negative.
WellFormed(g) ==
    \A u \in DOMAIN g : \A v \in DOMAIN g[u].neighbors :
        v \in DOMAIN g /\ g[u].neighbors[v] >= 0

\* C24: load_from_json returns false for a document with two nodes of the
\* same id, with a neighbors key that names no node of the document or with
\* a negative edge cost; a graph whose load returned true has only existing
\* neighbor ids and non-negative costs.
C24_InvalidRejected ==
    (loads > 0 /\ load_ok)
    => /\ ~DuplicateIds(document.items)
       /\ ~DanglingNeighbor(document.items)
       /\ ~NegativeCost(document.items)
       /\ WellFormed(nodes)

----------------------------------------------------------------------------
(* Specification of the whole program: startup, the control loop, and the *)
(* power switch going off at any moment.                                   *)

\* The files graph.load_from_json can find at data/maps/campus_map.json: none,
\* one that is no JSON, the campus map, and a map without any node.
StartupFiles == {Unreadable, Malformed, DocumentOf(MainGraph), Parsed(<<>>)}

\* bool BLEFingerpinting::load_map: the placeholder never looks at the file.
LoadMapReturns(file_ok) == TRUE

StartupFrame == <<pfVars, annVars, obsVars, is_navigating, current_path, now,
                  dt, key_press, ble_timer, pdr_update, power_switch>>

\* if (!hw->initialize()) return -1;
HardwareInitialize ==
    /\ pc = "start"
    /\ \E ok \in BOOLEAN :
         /\ hw_ok' = ok
         /\ IF ok THEN pc' = "load_map" /\ UNCHANGED exit_code
                  ELSE pc' = "abort" /\ exit_code' = ExitFailure
    /\ UNCHANGED <<StartupFrame, nodes, loaderVars, ekfVars, pdrVars, bleVars,
                   radio_file_ok, last_time>>

\* if (!graph.load_from_json("data/maps/campus_map.json")) return -1;
LoadNavigationMap ==
    /\ pc = "load_map"
    /\ \E file \in StartupFiles :
         LET r == load_from_json(file, nodes)
         IN  /\ document' = file
             /\ load_ok' = r.ok
             /\ nodes' = r.nodes
             /\ IF r.ok THEN pc' = "modules" /\ UNCHANGED exit_code
                        ELSE pc' = "abort" /\ exit_code' = ExitFailure
    /\ loads' = loads + 1
    /\ UNCHANGED <<StartupFrame, ekfVars, pdrVars, bleVars, hw_ok,
                   radio_file_ok, last_time>>

\* pdr.initialize(); ble_fp(3); if (!ble_fp.load_map(..)) { log }; ekf
\* initialize; last_time = now.  A radio map that cannot be loaded is only
\* logged.
InitializeModules ==
    /\ pc = "modules"
    /\ previous_acceleration_magnitude' = GRAVITY
    /\ \E file_ok \in BOOLEAN :
         /\ radio_file_ok' = file_ok
         /\ fingerprint_map' = PlaceholderMap
         /\ pc' = "loop_top"
    /\ x' = EkfInitialize(0, 0, 0).x
    /\ P' = EkfInitialize(0, 0, 0).P
    /\ last_time' = now
    /\ UNCHANGED <<StartupFrame, nodes, loaderVars, ekf_ops, ekf_call, is_peak,
                   current_heading, accumulated_delta_heading,
                   new_step_detected, last_step_length, interval_samples,
                   drained_samples, pdr_returns, drains, pdr_ops,
                   last_sample_step, ble_fp_k,
                   k_arg, current_scan, ble_pos, ble_ops, hw_ok, exit_code>>

\* The stages of a tick after the test of the switch.
TickStages == {"read", "key", "find_path", "pdr", "ble", "announce", "sleep"}

\* The user turns the device off while a tick is in progress.
SwitchOff ==
    /\ pc \in TickStages
    /\ power_switch
    /\ power_switch' = FALSE
    /\ UNCHANGED <<nodes, pfVars, ekfVars, annVars, mainVars, obsVars, pdrVars,
                   bleVars, loaderVars, hw_ok, radio_file_ok, exit_code>>

\* Iterations of the control loop followed from startup.
MaxMainTicks == 1

\* State when main() is entered.
InitMain ==
    /\ nodes = EmptyGraph
    /\ PathfinderIdle
    /\ EkfConstructed
    /\ now \in StartClocks
    /\ AnnouncerConstructed
    /\ pc = "start"
    /\ is_navigating = FALSE
    /\ current_path = <<>>
    /\ last_time = now
    /\ dt = 0
    /\ key_press = "KEY_NONE"
    /\ ble_timer = 0
    /\ pdr_update = NoPdrUpdate
    /\ ObsInit
    /\ PdrConstructed
    /\ ble_fp_k = Construct(3)
    /\ k_arg = 3
    /\ fingerprint_map = <<>>
    /\ current_scan = <<>>
    /\ ble_pos = [x |-> 0, y |-> 0]
    /\ ble_ops = 0
    /\ document = Unreadable
    /\ load_ok = TRUE
    /\ loads = 0
    /\ hw_ok = TRUE
    /\ radio_file_ok = TRUE
    /\ exit_code = ExitOk
    /\ power_switch = TRUE

NextMain ==
    \/ HardwareInitialize
    \/ LoadNavigationMap
    \/ InitializeModules
    \/ SwitchOff
    \/ (Next /\ (pc = "loop_top" => ticks < MaxMainTicks \/ pc' = "exit"))

SpecMain == InitMain /\ [][NextMain]_vars

\* C25: if hardware initialization, the load of the navigation map or the
\* load of the radio map fails at startup, the program aborts with a
\* non-zero exit code and the control loop is never entered: no sensor is
\* read, no key polled, no scan made and no cue played.
C25_FailureAborts ==
    (~hw_ok \/ (loads > 0 /\ ~load_ok) \/ ~radio_file_ok)
    => /\ pc = "abort"
       /\ exit_code # 0
       /\ calls = <<>> /\ audio = <<>> /\ ticks = 0

\* C26: an empty BLE scan never produces a filter correction: in a tick in
\* which every hw.scan_BLE() result is empty, ekf.update is not called,
\* whether the scan came from the 5-second cadence or from WHERE_AM_I.
C26_EmptyScanNoUpdate ==
    (scans_empty # <<>> /\ \A i \in 1..Len(scans_empty) : scans_empty[i])
    => \A i \in 1..Len(calls) : calls[i] # "ekf.update"

\* C27: the loop ends exactly when is_power_switch_on() returns false at the
\* top of an iteration, and main() then returns 0; no stage runs after
\* that; a tick that has started runs every stage to the end whether or not
\* the switch goes off during it.
C27_PowerOff ==
    /\ [](pc = "exit" => exit_code = ExitOk /\ ~power_switch /\ ~ENABLED NextMain)
    /\ [](pc \in TickStages /\ ~power_switch => ENABLED Next)
    /\ [][/\ pc = "loop_top" /\ pc' # pc => (pc' = "exit" <=> ~power_switch')
          /\ pc' = "exit" => pc \in {"loop_top", "exit"}
          /\ pc \in TickStages => pc' \in TickStages \cup {"loop_top"}]_vars

\* The switch went off during a tick (it was on at the top), and the tick
\* has gone through the positioning pipeline to its last stage.
C27_Witness ==
    /\ pc = "sleep"
    /\ ~power_switch
    /\ \E i \in 1..Len(calls) : calls[i] = "ekf.predict"

\* The step of the loop that holds the 5-second cadence.
BleStep == pc = "ble" /\ pc' = "announce"

\* C28: ble_timer is reset to 0 only by the periodic branch, on exactly the
\* ticks where the accumulated dt has exceeded 5.0, and whether or not the
\* scan was empty; key handling, WHERE_AM_I with its scan and EKF update
\* included, leaves ble_timer unchanged; two consecutive periodic scans are
\* more than 5.0 s of accumulated dt apart.
C28_TimerReset ==
    [][/\ ~BleStep => ble_timer' = ble_timer
       /\ BleStep =>
            IF ble_timer + dt > BLE_PERIOD
            THEN /\ ble_timer' = 0
                 /\ Len(periodic_scans') = Len(periodic_scans) + 1
                 /\ Len(scans_empty') = Len(scans_empty) + 1
            ELSE /\ ble_timer' = ble_timer + dt
                 /\ periodic_scans' = periodic_scans
                 /\ scans_empty' = scans_empty
       /\ (BleStep /\ periodic_scans' # periodic_scans /\ periodic_scans # <<>>)
            => last_time - periodic_scans[Len(periodic_scans)] > BLE_PERIOD]_vars

\* A second periodic scan has just been made and was empty, in a tick whose
\* WHERE_AM_I scan was not; the timer is back at 0.
C28_Witness ==
    /\ pc = "announce"
    /\ Len(periodic_scans) = 2
    /\ periodic_scans[2] = last_time
    /\ key_press = "KEY_WHERE_AM_I"
    /\ scans_empty = <<FALSE, TRUE>>
    /\ ble_timer = 0

\* A process_IMU_data step, and whether detect_step fired on its sample.
SampleStep ==
    /\ pdr_ops' = pdr_ops + 1
    /\ Len(interval_samples') = Len(interval_samples) + 1
StepFired == interval_samples'[Len(interval_samples')].step

\* C29: step detection is a two-state machine: a step fires on a sample only
\* if above_threshold (is_peak) was already true before the sample and the
\* filtered magnitude of the sample is below the previous filtered
\* magnitude; firing clears above_threshold; above_threshold becomes true
\* only on a sample whose filtered magnitude exceeds the threshold; the
\* previous filtered magnitude is updated on every sample.
C29_StepStateMachine ==
    [][SampleStep =>
        /\ StepFired <=> (is_peak /\ previous_acceleration_magnitude'
                                        < previous_acceleration_magnitude)
        /\ StepFired => ~is_peak'
        /\ (is_peak' /\ ~is_peak)
             => previous_acceleration_magnitude' > STEP_THRESHOLD
        /\ (is_peak /\ ~is_peak') => StepFired
        /\ \E imu_data \in ImuSamples :
              previous_acceleration_magnitude' =
                  LowPass(previous_acceleration_magnitude,
                          AccelMagnitude(imu_data))]_vars

\* A step has just fired on a falling sample and the detector waits for the
\* next upward crossing.
C29_Witness ==
    /\ interval_samples # <<>>
    /\ interval_samples[Len(interval_samples)].step
    /\ ~is_peak
    /\ previous_acceleration_magnitude > STEP_THRESHOLD

\* C30: after every process_IMU_data call, for every gyro rate and every dt,
\* the running heading current_heading lies in [0, 2 pi).
C30_HeadingInRange == current_heading >= 0 /\ current_heading < TWO_PI

\* C31: when a step fires, the a_max of the step-length estimate is the
\* filtered magnitude at the detected peak, i.e. of the sample immediately
\* before the declining sample on which the step fires, and a_min is g.
C31_PeakMagnitude ==
    [][(SampleStep /\ StepFired)
        => last_step_length' =
               estimate_step_length(previous_acceleration_magnitude)]_vars

\* C32: every PDRState returned by get_pdr_update, after any sequence of
\* process and drain calls, has step_length within [0.3, 1.0] when
\* step_detected is true and step_length 0 when step_detected is false.
C32_StepLengthClamped ==
    \A i \in 1..Len(pdr_returns) :
        IF pdr_returns[i].step_detected
        THEN /\ pdr_returns[i].step_length >= MIN_STEP_LENGTH
             /\ pdr_returns[i].step_length <= MAX_STEP_LENGTH
        ELSE pdr_returns[i].step_length = 0

\* A drain returned a step whose estimate the lower clamp raised to 0.3, and
\* the drain after it returned no step and length 0.
C32_Witness ==
    /\ Len(pdr_returns) = 2
    /\ pdr_returns[1].step_detected
    /\ pdr_returns[1].step_length = MIN_STEP_LENGTH
    /\ estimate_step_lengthUnclamped(previous_acceleration_magnitude)
         < MIN_STEP_LENGTH
    /\ ~pdr_returns[2].step_detected
    /\ pdr_returns[2].step_length = 0

\* C37: the PDR never reports steps on two consecutive samples, whatever the
\* accelerometer values and however many drains lie between them: after a
\* step the detector must first re-arm on a sample above the threshold.
C37_NoConsecutiveSteps ==
    [][(SampleStep /\ last_sample_step) => (~StepFired /\ ~last_sample_step')]_vars

\* The sample after a step was a declining one again and fired nothing; the
\* step is still waiting for its drain.
C37_Witness ==
    /\ Len(interval_samples) >= 2
    /\ interval_samples[Len(interval_samples) - 1].step
    /\ ~interval_samples[Len(interval_samples)].step
    /\ ~last_sample_step
    /\ previous_acceleration_magnitude < GRAVITY
    /\ new_step_detected

\* An update made after an update that advanced next_node_index, with no
\* turn cue in between, whose target is outside the reached radius and more
\* than 0.35 rad off the heading.
OffCourseAfterWaypoint ==
    /\ GuidanceCall
    /\ waypoint_since_cue
    /\ ~destination_reached
    /\ HasTarget
    /\ DistanceTo(x, TargetNode) >= WAYPOINT_REACHED_RADIUS
    /\ Abs(HeadingError(x, TargetNode)) > TURN_THRESHOLD

\* C33: reaching a waypoint clears the cooldown: on the first update after
\* an update that advanced next_target_index, if the new target is not
\* within the reached radius and the absolute heading error exceeds 0.35, a
\* turn cue is played, even less than 3 s after the previous turn cue.
C33_WaypointClearsCooldown ==
    [][OffCourseAfterWaypoint
        => \E cue \in TurnCues : audio' = Append(audio, cue)]_vars

----------------------------------------------------------------------------
(* Specification of the Announcer: sequences of update and reset calls on  *)
(* a map whose waypoints lie closer together than the reached radius.      *)

\* Number of update calls explored.
MaxAnnouncerTicks == 3

\* A corridor with a waypoint every metre.
ClosePosition(id) ==
    CASE id = "RP_HALLWAY_START"  -> [x |-> 0,    y |-> 0]
      [] id = "RP_HALLWAY_MIDDLE" -> [x |-> 1000, y |-> 0]
      [] id = "RP_HALLWAY_END"    -> [x |-> 2000, y |-> 0]
      [] id = "RP_LOBBY"          -> [x |-> 2000, y |-> 4000]
CloseGraph ==
    [id \in NodeIds |-> [MainGraph[id] EXCEPT !.position = ClosePosition(id)]]

\* Paths handed to update: none, the corridor, the corridor on to the lobby.
AnnouncerPaths ==
    {<<>>,
     <<"RP_HALLWAY_START", "RP_HALLWAY_MIDDLE", "RP_HALLWAY_END">>,
     <<"RP_HALLWAY_MIDDLE", "RP_HALLWAY_END", "RP_LOBBY">>}

\* Poses handed to update: in the middle of the corridor looking along it
\* or across it, and away from every waypoint.
AnnouncerPoses == {<<1000, 0, 0>>, <<1000, 0, HALF_PI>>, <<6000, 0, 0>>}

\* int Announcer::update(current_pose, current_path, graph, hw)
UpdateCall ==
    /\ pc \in {"key", "announce"}
    /\ ticks < MaxAnnouncerTicks
    /\ \E pose \in AnnouncerPoses : \E elapsed \in TickTimes :
         LET r == AnnouncerUpdate(pose, current_path, nodes, next_node_index,
                                  destination_reached, last_announcement_time,
                                  now + elapsed)
         IN  /\ now' = now + elapsed
             /\ x' = pose
             /\ next_node_index' = r.next_node_index
             /\ destination_reached' = r.destination_reached
             /\ last_announcement_time' = r.last_announcement_time
             /\ next_idx' = r.ret
             /\ audio' = r.cues
    /\ calls' = <<"announcer.update">>
    /\ ticks' = ticks + 1
    /\ pc' = "key"
    /\ UNCHANGED current_path

\* void Announcer::reset(), with the path of the new session
ResetCall ==
    /\ pc = "key"
    /\ ticks < MaxAnnouncerTicks
    /\ AnnouncerReset
    /\ current_path' \in AnnouncerPaths
    /\ calls' = <<"announcer.reset">>
    /\ audio' = <<>>
    /\ pc' = "announce"
    /\ UNCHANGED <<x, now, next_idx, ticks>>

InitAnnouncer ==
    /\ nodes = CloseGraph
    /\ PathfinderIdle
    /\ EkfConstructed
    /\ now \in StartClocks
    /\ AnnouncerConstructed
    /\ pc = "key"
    /\ is_navigating = TRUE
    /\ current_path \in AnnouncerPaths
    /\ last_time = now
    /\ dt = 0
    /\ key_press = "KEY_NONE"
    /\ ble_timer = 0
    /\ pdr_update = NoPdrUpdate
    /\ ObsInit
    /\ PdrInitialized
    /\ LocalizerLoaded
    /\ StartupDone

AnnouncerRest ==
    <<loaderVars, startVars, pdrVars, bleVars, nodes, pfVars, P, ekf_ops,
      ekf_call, is_navigating, last_time, dt, key_press, ble_timer,
      pdr_update, scan_times, arrivals, turn_cue_time, waypoint_since_cue,
      scans_empty, periodic_scans>>

NextAnnouncer ==
    \/ UpdateCall /\ UNCHANGED AnnouncerRest
    \/ ResetCall  /\ UNCHANGED AnnouncerRest

SpecAnnouncer == InitAnnouncer /\ [][NextAnnouncer]_vars

\* An update call of the announcer specification.
UpdateStep == calls' = <<"announcer.update">> /\ ticks' = ticks + 1

\* C35: between two reset() calls next_target_index never decreases and
\* increases by at most one per update call: a pose within the reached
\* radius of several consecutive waypoints advances through them one update
\* at a time, with one waypoint cue per update; no update call plays more
\* than one audio cue.
C35_OneWaypointPerUpdate ==
    [][/\ UpdateStep
          => /\ next_node_index' \in {next_node_index, next_node_index + 1}
             /\ Len(audio') <= 1
             /\ next_node_index' = next_node_index + 1
                  => audio' = <<IF TargetNode.audio_file # ""
                                THEN TargetNode.audio_file
                                ELSE "beep_checkpoint">>
       /\ next_node_index' < next_node_index
          => calls' = <<"announcer.reset">>]_vars

\* Two updates at a pose within the reached radius of the two waypoints
\* ahead have advanced the index twice, the second playing the cue of the
\* second waypoint only.
C35_Witness ==
    /\ ticks = 2
    /\ calls = <<"announcer.update">>
    /\ current_path = <<"RP_HALLWAY_START", "RP_HALLWAY_MIDDLE",
                        "RP_HALLWAY_END">>
    /\ next_node_index = 3
    /\ DistanceTo(x, nodes["RP_HALLWAY_MIDDLE"]) < WAYPOINT_REACHED_RADIUS
    /\ DistanceTo(x, nodes["RP_HALLWAY_END"]) < WAYPOINT_REACHED_RADIUS
    /\ audio = <<"beep_checkpoint">>

\* The step of the loop that scans for the start node and calls find_path.
StartScan == pc = "key" /\ pc' = "find_path"

\* C34: on START_NAVIGATION the start id passed to find_path is a graph node
\* whose Euclidean distance to the EKF position (px, py) is minimal over all
\* graph nodes, and among nodes at equal minimal distance the one with the
\* smallest id.
C34_NearestStart ==
    [][StartScan
        => /\ get_node(nodes, start_node_id')
           /\ \A id \in DOMAIN nodes :
                LET d == DistanceTo(x, nodes[id])
                    chosen == DistanceTo(x, nodes[start_node_id'])
                IN  /\ chosen <= d
                    /\ chosen = d => Rank(start_node_id') <= Rank(id)]_vars

\* No id occurs twice in p.
NoRepeat(p) == \A i, j \in 1..Len(p) : p[i] = p[j] => i = j

\* C36: every non-empty sequence returned by find_path is a walk of the
\* graph (each element names a node, each consecutive pair (u, v) has v as a
\* key of u's neighbor map) in which no id occurs twice, and no iteration of
\* the search expands an id that names no node.
C36_ValidWalk ==
    /\ [](pf_pc = "done" /\ path # <<>> => IsWalk(nodes, path) /\ NoRepeat(path))
    /\ [][~NullDereference]_vars
\* C38: is_navigating, once true, stays true.  A START_NAVIGATION whose
\* find_path returns the empty path during a session makes current_path
\* empty and leaves the announcer as it was; the path then stays empty until
\* a START_NAVIGATION with a non-empty result, and every announcer.update
\* made meanwhile returns -1 and plays no audio.
C38_FailedRestart ==
    /\ [][is_navigating => is_navigating']_vars
    /\ [][(StartNavigationStep /\ is_navigating /\ path = <<>>)
           => (current_path' = <<>> /\ UNCHANGED annVars)]_vars
    /\ [][(is_navigating /\ current_path = <<>> /\ current_path' # <<>>)
           => (StartNavigationStep /\ path # <<>>)]_vars
    /\ [][(GuidanceCall /\ current_path = <<>>)
           => (next_idx' = -1 /\ audio' = audio)]_vars

\* A tick after the one whose START_NAVIGATION failed during a session: the
\* announcer, which had advanced before the failure, was not reset, and the
\* update of this tick returned -1 and played nothing.
C38_Witness ==
    /\ pc = "sleep"
    /\ is_navigating
    /\ current_path = <<>>
    /\ key_press = "KEY_NONE"
    /\ Contains(calls, "announcer.update")
    /\ next_idx = -1
    /\ audio = <<>>
    /\ next_node_index > 1
====
